---- MODULE Spec2Model ----
(***************************************************************************)
(* A model of GraphFormatConverter (graph-format-converter): the four     *)
(* importers (fromJson, fromGraphology, fromGexf, fromGraphml), the four  *)
(* exporters (toJson, toGraphology, toGexf, toGraphml) and their helpers. *)
(*                                                                         *)
(* JavaScript values are modelled as records [t, v, o]: t is the runtime  *)
(* tag, v the text of a scalar, o the ordered entries [k, val] of an      *)
(* object or array.  Element objects live in a heap and are shared by     *)
(* reference between the caller's document, the graph and the documents   *)
(* the JSON exporters return, as in the code.                             *)
(***************************************************************************)
EXTENDS Integers, Sequences, FiniteSets, TLC

VARIABLES
    heap,    \* the element objects, by reference (index)
    doc,     \* the caller's document
    graphs,  \* the GraphFormatConverter instances returned so far
    snaps,   \* for each instance, its content when the importer returned it
    out,     \* what the last exporter returned
    last,    \* the last call and the error it raised, if any
    given    \* the caller's document as it was before the first call, by value

vars == <<heap, doc, graphs, snaps, out, last, given>>

(***************************************************************************)
(* Bounds of the model.                                                    *)
(***************************************************************************)
MaxElems == 2
MaxGraphs == 2
\* the objects the heap holds when an importer is called
MaxHeap == 8

(***************************************************************************)
(* JavaScript values.                                                      *)
(***************************************************************************)
Str(s) == [t |-> "string", v |-> s, o |-> <<>>]
Num(s) == [t |-> "number", v |-> s, o |-> <<>>]
Bool(s) == [t |-> "boolean", v |-> s, o |-> <<>>]
Undef == [t |-> "undefined", v |-> "", o |-> <<>>]
Obj(entries) == [t |-> "object", v |-> "", o |-> entries]
E(key, value) == [k |-> key, val |-> value]
\* a list given item by item: every item is computed when the list is made
List(f) == <<>> \o f
Arr(items) == [t |-> "array", v |-> "", o |-> List([i \in 1..Len(items) |-> E("", items[i])])]
Items(a) == List([i \in 1..Len(a.o) |-> a.o[i].val])
\* the rounds of a loop run one after the other: what a round returned is
\* computed before the next round starts
Evaluated(x) == x = x
\* A value that stands for a raised exception
Throw(e) == [t |-> "throw", v |-> e, o |-> <<>>]
IsThrow(x) == x.t = "throw"

\* typeof value
TypeOf(x) ==
    IF x.t \in {"string", "number", "boolean", "undefined"} THEN x.t ELSE "object"

\* own-property helpers on the ordered entries of an object
HasKey(es, key) == \E i \in 1..Len(es) : es[i].k = key
IndexOf(es, key) == CHOOSE i \in 1..Len(es) : es[i].k = key
GetE(es, key) == IF HasKey(es, key) THEN es[IndexOf(es, key)].val ELSE Undef
SetE(es, key, value) ==
    IF HasKey(es, key)
    THEN [es EXCEPT ![IndexOf(es, key)] = E(key, value)]
    ELSE Append(es, E(key, value))
DelE(es, key) == SelectSeq(es, LAMBDA e : e.k # key)
Keys(es) == List([i \in 1..Len(es) |-> es[i].k])

\* x[key]: a property read throws on undefined and null
Prop(x, key) ==
    CASE IsThrow(x) -> x
      [] x.t \in {"undefined", "null"} -> Throw("TypeError")
      [] x.t = "object" -> GetE(x.o, key)
      [] OTHER -> Undef

\* `${value}`
Template(x) ==
    CASE x.t = "undefined" -> "undefined"
      [] x.t = "null" -> "null"
      [] OTHER -> x.v

\* the strings that read as a number
NumericStrings == {"0", "1", "2", "255"}

\* Number(value)
ToNumber(x) ==
    CASE x.t = "number" -> x
      [] x.t = "string" /\ x.v \in NumericStrings -> Num(x.v)
      [] x.t = "string" /\ x.v = "" -> Num("0")
      [] x.t = "boolean" /\ x.v = "true" -> Num("1")
      [] x.t = "boolean" /\ x.v = "false" -> Num("0")
      [] x.t = "null" -> Num("0")
      [] OTHER -> Num("NaN")

\* the truthiness of a value in a condition
Truthy(x) ==
    ~ \/ x.t \in {"undefined", "null"}
      \/ x.t = "number" /\ x.v \in {"0", "NaN"}
      \/ x.t = "string" /\ x.v = ""
      \/ x.t = "boolean" /\ x.v = "false"

(***************************************************************************)
(* The color service (tinycolor2).                                         *)
(***************************************************************************)
\* a color of the service: its rgb text and its three channels
RgbString(r, g, b) == "rgb(" \o r \o ", " \o g \o ", " \o b \o ")"
Color(r, g, b) ==
    [t |-> "color", v |-> RgbString(r, g, b),
     o |-> <<E("r", Num(r)), E("g", Num(g)), E("b", Num(b))>>]

\* the channels of the rgb texts the service reads
Channels == NumericStrings \X NumericStrings \X NumericStrings

\* the channels of a color text; a text the service cannot read is black
ChannelsOf(s) ==
    CASE s \in {"#ff0000", "red"} -> <<"255", "0", "0">>
      [] s = "#0000ff" -> <<"0", "0", "255">>
      [] \E c \in Channels : s = RgbString(c[1], c[2], c[3]) ->
            CHOOSE c \in Channels : s = RgbString(c[1], c[2], c[3])
      [] OTHER -> <<"0", "0", "0">>

\* tinycolor2(value): an instance is returned as it is
ColorOf(c) == Color(c[1], c[2], c[3])
tinycolor2(x) == IF x.t = "color" THEN x ELSE ColorOf(ChannelsOf(x.v))
toRgbString(c) == Str(c.v)
toRgb(c) == [r |-> GetE(c.o, "r"), g |-> GetE(c.o, "g"), b |-> GetE(c.o, "b")]

(***************************************************************************)
(* Errors                                                                  *)
(***************************************************************************)
NoError == [name |-> "", message |-> <<>>]
\* an exception of the runtime that no handler of the code replaced
TypeError == [name |-> "TypeError", message |-> <<>>]
\* new Error(`An error occurred while trying to parse the XML string: ${e}`)
ParseError(e) ==
    [name |-> "Error",
     message |-> <<"An error occurred while trying to parse the XML string", ": ", e>>]
\* new Error("An error has occurred while creating the graph, your file is malformed")
MalformedError ==
    [name |-> "Error",
     message |-> <<"An error has occurred while creating the graph, your file is malformed">>]

(***************************************************************************)
(* The attribute schema inferencer.                                        *)
(***************************************************************************)
\* attributesObject[key] is created when it is undefined
EnsureKey(ao, key) ==
    IF \E i \in 1..Len(ao) : ao[i].id = key
    THEN ao
    ELSE Append(ao, [id |-> key, title |-> key, type |-> <<>>])

\* the counter of the type is created at 0 when it is undefined
EnsureType(tc, ty) ==
    IF \E j \in 1..Len(tc) : tc[j].k = ty THEN tc ELSE Append(tc, [k |-> ty, n |-> 0])

\* attributesObject[key].type[typeof value] += 1
AddOne(tc, ty) ==
    List([j \in 1..Len(tc) |-> IF tc[j].k = ty THEN [k |-> ty, n |-> tc[j].n + 1] ELSE tc[j]])

CountType(ao, key, ty) ==
    List([i \in 1..Len(ao) |->
        IF ao[i].id = key
        THEN [id |-> ao[i].id, title |-> ao[i].title,
              type |-> AddOne(EnsureType(ao[i].type, ty), ty)]
        ELSE ao[i]])

\* guessJSONAttribute(key, value, attributesObject): the object is modelled
\* by its entries in insertion order, each with its type counters in
\* insertion order
guessJSONAttribute(key, value, ao) == CountType(EnsureKey(ao, key), key, TypeOf(value))

\* a callback that lets the last of the types with the highest count win
ReduceStepLastWins(acc, entry) ==
    IF acc.type = "" \/ entry.n >= acc.count
    THEN [type |-> entry.k, count |-> entry.n]
    ELSE acc

\* the callback of the reduce in getAttributesFromGuesser
ReduceStep(acc, entry) ==
    CASE acc.type = "" -> [type |-> entry.k, count |-> entry.n]
      [] acc.type # "" /\ entry.n > acc.count -> [type |-> entry.k, count |-> entry.n]
      [] OTHER -> acc

RECURSIVE ReduceTypes(_, _, _)
ReduceTypes(tc, i, acc) ==
    CASE Evaluated(acc) /\ i > Len(tc) -> acc
      [] OTHER -> ReduceTypes(tc, i + 1, ReduceStep(acc, tc[i]))

\* getAttributesFromGuesser(attributesObject)
getAttributesFromGuesser(ao) ==
    List([i \in 1..Len(ao) |->
        [id |-> Str(ao[i].id),
         title |-> Str(ao[i].title),
         type |-> ReduceTypes(ao[i].type, 1, [type |-> "", count |-> 0]).type]])

(***************************************************************************)
(* fromJson                                                                *)
(***************************************************************************)
\* the keys the first test of the loop does not guess
NotGuessed == {"attributes", "color", "id", "source", "target"}
\* the keys the second test of the loop leaves on the element
NotMoved ==
    {"attributes", "color", "id", "size", "weight", "target", "source",
     "label", "edgelabel", "shape", "x", "y", "z"}

RECURSIVE GuessEntries(_, _, _)
GuessEntries(es, i, ao) ==
    CASE Evaluated(ao) /\ i > Len(es) -> ao
      [] OTHER ->
            GuessEntries(es, i + 1, guessJSONAttribute(es[i].k, es[i].val, ao))

\* element.attributes[elementKey] = element[elementKey]
SetAttr(e, key, value) ==
    SetE(e, "attributes", Obj(SetE(GetE(e, "attributes").o, key, value)))

\* a first test that guesses only the keys that stay on the element
GuessKeyKeptOnly(key, value, ao) ==
    IF key \in NotMoved \ NotGuessed THEN guessJSONAttribute(key, value, ao) ELSE ao

\* the first test of the loop: the key is guessed
GuessKey(key, value, ao) ==
    IF key \notin NotGuessed THEN guessJSONAttribute(key, value, ao) ELSE ao

\* the second test of the loop: the key is moved into the attributes
MoveKey(key, value, e) ==
    CASE key \in NotMoved -> e
      [] key \notin NotMoved /\ value.t # "undefined" -> DelE(SetAttr(e, key, value), key)
      [] OTHER -> DelE(e, key)

\* one round of `for (const elementKey in element)`
ForInStep(key, st) ==
    [e |-> MoveKey(key, GetE(st.e, key), st.e),
     ao |-> GuessKey(key, GetE(st.e, key), st.ao)]

RECURSIVE ForIn(_, _, _)
ForIn(keys, i, st) ==
    CASE Evaluated(st) /\ i > Len(keys) -> st
      [] OTHER -> ForIn(keys, i + 1, ForInStep(keys[i], st))

\* the attributes of the element are created, or guessed
AttributesStep(e, ao) ==
    IF GetE(e, "attributes").t = "undefined"
    THEN [e |-> SetE(e, "attributes", Obj(<<>>)), ao |-> ao]
    ELSE [e |-> e, ao |-> GuessEntries(GetE(e, "attributes").o, 1, ao)]

\* the color of the element is kept as a tinycolor2 color
ColorStep(st) ==
    IF GetE(st.e, "color").t # "undefined"
    THEN [e |-> SetE(st.e, "color", tinycolor2(GetE(st.e, "color"))), ao |-> st.ao]
    ELSE st

\* the loop over the keys the element has when the loop starts
ForInElement(st) == ForIn(Keys(st.e), 1, st)

\* the size of an edge becomes its weight
SizeToWeight(st, isNode) ==
    IF ~isNode /\ GetE(st.e, "size").t # "undefined"
    THEN [e |-> DelE(SetE(st.e, "weight", GetE(st.e, "size")), "size"), ao |-> st.ao]
    ELSE st

\* the callback of elements.map in reorganizeAttributesOfElements, applied to
\* the entries e of one element; ao is the attributes object of its role
reorganizeElement(e, isNode, ao) ==
    SizeToWeight(ForInElement(ColorStep(AttributesStep(e, ao))), isNode)

\* the element at reference ref takes the entries of r
StoreElement(h, ref, r) == [h EXCEPT ![ref] = Obj(r.e)]

\* reorganizeAttributesOfElements(elements, isNode) on the heap h
RECURSIVE reorganizeAttributesOfElements(_, _, _, _, _)
ReorganizeNext(h, refs, i, isNode, r) ==
    reorganizeAttributesOfElements(StoreElement(h, refs[i], r), refs, i + 1, isNode, r.ao)

reorganizeAttributesOfElements(h, refs, i, isNode, ao) ==
    CASE Evaluated(h) /\ Evaluated(ao) /\ i > Len(refs) -> [heap |-> h, ao |-> ao]
      [] OTHER ->
            ReorganizeNext(h, refs, i, isNode, reorganizeElement(h[refs[i]].o, isNode, ao))

\* {...a, ...b} on entries
RECURSIVE Spread(_, _, _)
Spread(a, b, i) ==
    CASE Evaluated(a) /\ i > Len(b) -> a
      [] OTHER -> Spread(SetE(a, b[i].k, b[i].val), b, i + 1)

\* the generic graph attributes of fromJson, fromGexf and fromGraphml
DefaultGraphAttributes ==
    <<E("id", Str("graph")), E("edgeType", Str("undirected")), E("mode", Str("static"))>>

NoGraph ==
    [nodes |-> <<>>, edges |-> <<>>, nodeAttributes |-> <<>>, edgeAttributes |-> <<>>,
     graphAttributes |-> Undef]

\* new GraphFormatConverter(nodes, edges, nodeAttributes, edgeAttributes, graphAttributes)
NewGraph(nodes, edges, na, ea, ga) ==
    [nodes |-> nodes, edges |-> edges, nodeAttributes |-> na, edgeAttributes |-> ea,
     graphAttributes |-> ga]

\* an importer raised err: no instance is returned
Raised(h, d, err) == [heap |-> h, doc |-> d, err |-> err, graph |-> NoGraph]

\* an end of fromJson that takes the given graph attributes without defaults
FromJsonReturnAsGiven(rn, re, d) ==
    [heap |-> re.heap, doc |-> d, err |-> NoError,
     graph |-> NewGraph(d.nodes, d.edges,
                   getAttributesFromGuesser(rn.ao),
                   getAttributesFromGuesser(re.ao),
                   IF d.attributes.t = "undefined"
                   THEN Obj(DefaultGraphAttributes)
                   ELSE d.attributes)]

\* the end of fromJson, given what the two reorganizations returned
FromJsonReturn(rn, re, d) ==
    [heap |-> re.heap, doc |-> d, err |-> NoError,
     graph |-> NewGraph(d.nodes, d.edges,
                   getAttributesFromGuesser(rn.ao),
                   getAttributesFromGuesser(re.ao),
                   Obj(Spread(DefaultGraphAttributes, d.attributes.o, 1)))]

\* fromJson after the nodes were reorganized: the edges
FromJsonEdges(rn, d) ==
    IF ~d.hasEdges THEN Raised(rn.heap, d, TypeError)
    ELSE FromJsonReturn(rn,
             reorganizeAttributesOfElements(rn.heap, d.edges, 1, FALSE, <<>>), d)

\* fromJson(graphData) on the heap h: the heap and the document after the
\* call, the error it raised and the instance it returned
fromJson(h, d) ==
    IF ~d.hasNodes THEN Raised(h, d, TypeError)
    ELSE FromJsonEdges(reorganizeAttributesOfElements(h, d.nodes, 1, TRUE, <<>>), d)

(***************************************************************************)
(* fromGraphology                                                          *)
(***************************************************************************)
\* {id: node.key, ...node.attributes}
GraphologyNode(n) ==
    Obj(Spread(<<E("id", GetE(n.o, "key"))>>, GetE(n.o, "attributes").o, 1))

\* {id: edge.key, source: ..., target: ..., undirected: ..., ...edge.attributes}
GraphologyEdge(e) ==
    Obj(Spread(<<E("id", GetE(e.o, "key")), E("source", GetE(e.o, "source")),
                 E("target", GetE(e.o, "target")),
                 E("undirected", GetE(e.o, "undirected"))>>,
               GetE(e.o, "attributes").o, 1))

\* the references of n objects allocated after the heap h
NewRefs(h, n) == List([i \in 1..n |-> Len(h) + i])

\* the heap with the objects the map over the elements created
GraphologyMap(h, refs, f(_)) == h \o List([i \in 1..Len(refs) |-> f(h[refs[i]])])

\* fromGraphology after graphData.nodes was replaced: the edges
FromGraphologyEdges(h, d, oldEdges) ==
    IF ~d.hasEdges THEN Raised(h, d, TypeError)
    ELSE fromJson(GraphologyMap(h, oldEdges, GraphologyEdge),
                  [d EXCEPT !.edges = NewRefs(h, Len(oldEdges))])

\* fromGraphology(graphData) on the heap h
fromGraphology(h, d) ==
    IF ~d.hasNodes THEN Raised(h, d, TypeError)
    ELSE FromGraphologyEdges(GraphologyMap(h, d.nodes, GraphologyNode),
                             [d EXCEPT !.nodes = NewRefs(h, Len(d.nodes))], d.edges)

(***************************************************************************)
(* toJson, toGraphology                                                    *)
(***************************************************************************)
\* the callback of the two maps of toJson
JsonElement(e) ==
    IF GetE(e.o, "color").t # "undefined"
    THEN Obj(SetE(e.o, "color", toRgbString(tinycolor2(GetE(e.o, "color")))))
    ELSE e

\* array.map(f) where f changes the element it is given and returns it
MapInPlace(h, refs, f(_)) ==
    List([r \in 1..Len(h) |->
        IF \E i \in 1..Len(refs) : refs[i] = r THEN f(h[r]) ELSE h[r]])

\* the document an exporter or the caller made
Document(kind, hasNodes, nodes, hasEdges, edges, attributes, tree) ==
    [kind |-> kind, hasNodes |-> hasNodes, nodes |-> nodes, hasEdges |-> hasEdges,
     edges |-> edges, attributes |-> attributes, tree |-> tree]

NoDocument == Document("none", FALSE, <<>>, FALSE, <<>>, Undef, Undef)

\* toJson() of the instance gr on the heap h
toJson(h, gr) ==
    LET h1 == MapInPlace(h, gr.nodes, JsonElement)
        h2 == MapInPlace(h1, gr.edges, JsonElement)
    IN  [heap |-> h2, err |-> NoError,
         out |-> Document("json", TRUE, gr.nodes, TRUE, gr.edges, gr.graphAttributes, Undef)]

\* a callback that sets the key of every node to its id
GraphologyOutNodeIdAsKey(n) == Obj(SetE(JsonElement(n).o, "key", GetE(n.o, "id")))

\* the callback of the map over the nodes in toGraphology
GraphologyOutNode(n) ==
    LET n1 == JsonElement(n)
    IN  IF GetE(n1.o, "key").t = "undefined"
        THEN Obj(SetE(n1.o, "key", GetE(n1.o, "id")))
        ELSE n1

\* the callback of the map over the edges in toGraphology
GraphologyOutEdge(e, edgeType) ==
    LET e1 == JsonElement(e)
        e2 == IF GetE(e1.o, "key").t = "undefined" /\ GetE(e1.o, "id").t # "undefined"
              THEN Obj(SetE(e1.o, "key", GetE(e1.o, "id")))
              ELSE e1
    IN  Obj(SetE(e2.o, "undirected",
                 Bool(IF edgeType = Str("undirected") THEN "true" ELSE "false")))

\* toGraphology() of the instance gr on the heap h
toGraphology(h, gr) ==
    LET ga == gr.graphAttributes.o
        h1 == MapInPlace(h, gr.nodes, GraphologyOutNode)
        h2 == MapInPlace(h1, gr.edges, LAMBDA e : GraphologyOutEdge(e, GetE(ga, "edgeType")))
    IN  [heap |-> h2, err |-> NoError,
         out |-> Document("graphology", TRUE, gr.nodes, TRUE, gr.edges,
                          Obj(Spread(<<E("name", GetE(ga, "id"))>>, ga, 1)), Undef)]

(***************************************************************************)
(* The XML service (fast-xml-parser) under parserOptions/builderOptions.   *)
(* An XML text is modelled by the tree of its tags: an object whose        *)
(* entries are the tag's XML attributes (prefixed names), its "#text" and  *)
(* its child tags, each with the list of its occurrences.                  *)
(***************************************************************************)
\* parserOptions.attributeNamePrefix
attributeNamePrefix == "@_@_@_"
P(name) == attributeNamePrefix \o name

\* the names of XML attributes that occur in the documents of the model
AttrNames ==
    {"id", "label", "source", "target", "weight", "for", "value", "class", "mode",
     "defaultedgetype", "edgedefault", "type", "title", "key", "r", "g", "b",
     "x", "y", "z", "attr.name", "attr.type", "version", "encoding", "xmlns",
     "xmlns:viz", "xmlns:xsi", "xsi:schemaLocation", "kind", "start", "end",
     "edgelabel", "undirected"}

\* key.includes(attributeNamePrefix)
HasPrefix(key) == \E n \in AttrNames : key = P(n)
\* key.replace(attributeNamePrefix, '')
StripPrefix(key) == CHOOSE n \in AttrNames : key = P(n)

\* removeNSPrefix: the local name of a tag
LocalName(tag) ==
    CASE tag = "viz:color" -> "color"
      [] tag = "viz:position" -> "position"
      [] tag = "viz:size" -> "size"
      [] tag = "viz:shape" -> "shape"
      [] tag = "viz:thickness" -> "thickness"
      [] OTHER -> tag

\* the parser decodes the entities of a text
DecodeEntities(s) ==
    CASE s = "a&amp;b" -> "a&b"
      [] s = "a&amp;amp;b" -> "a&amp;b"
      [] OTHER -> s

\* parseAttributeValue / parseTagValue: a text that reads as a number or a
\* boolean is returned as one
ParseValue(x) ==
    LET text == Template(x)
    IN  IF text \in NumericStrings THEN Num(text)
        ELSE IF text \in {"true", "false"} THEN Bool(text)
        ELSE Str(DecodeEntities(text))

\* one tag as the parser returns it: a tag that occurs once is returned as
\* an object, a tag that occurs several times as an array, a tag that does
\* not occur is left out, a tag without content is the empty string
RECURSIVE ParseTag(_)
\* an entry the parser leaves out
Omitted == E("", Undef)

ParseOccurrences(k, parsed) ==
    CASE Len(parsed) = 0 -> Omitted
      [] Len(parsed) = 1 -> E(LocalName(k), parsed[1])
      [] OTHER -> E(LocalName(k), Arr(parsed))

ParseEntry(k, val) ==
    CASE k = "#text" ->
            IF Template(val) = "" THEN Omitted ELSE E("#text", ParseValue(val))
      [] k # "#text" /\ val.t = "undefined" -> Omitted
      [] k # "#text" /\ val.t # "undefined" /\ HasPrefix(k) -> E(k, ParseValue(val))
      [] k # "#text" /\ ~HasPrefix(k) /\ val.t = "array" ->
            ParseOccurrences(k, List([j \in 1..Len(val.o) |-> ParseTag(val.o[j].val)]))
      [] OTHER -> E(LocalName(k), ParseTag(val))

ParseEntries(es) ==
    SelectSeq(List([i \in 1..Len(es) |-> ParseEntry(es[i].k, es[i].val)]),
              LAMBDA e : e # Omitted)

ParseTag(n) ==
    CASE n.t # "object" -> ParseValue(n)
      [] n.t = "object" /\ ParseEntries(n.o) = <<>> -> Str("")
      [] OTHER -> Obj(ParseEntries(n.o))

\* new XMLParser(parserOptions).parse(text): raises on a text that is not
\* well-formed, modelled by the text Throw(e)
XMLParser_parse(text) == IF IsThrow(text) THEN text ELSE ParseTag(text)

\* new XMLBuilder(builderOptions).build(root): the text of the tree
XMLBuilder_build(root) == root

(***************************************************************************)
(* fromGexf                                                                *)
(***************************************************************************)
\* gexfTypeToJSON(type)
gexfTypeToJSON(type) ==
    IF type.t = "string" /\ type.v \in {"integer", "long", "double", "float"} THEN "number"
    ELSE IF type.t = "string" /\ type.v = "boolean" THEN "boolean"
    ELSE "string"

\* Array.isArray(x) ? x : [x]
AsArray(x) == IF x.t = "array" THEN Items(x) ELSE <<x>>

\* array.find(predicate)
Find(items, Pred(_)) ==
    IF \E i \in 1..Len(items) : Pred(items[i])
    THEN items[CHOOSE i \in 1..Len(items) :
                   Pred(items[i]) /\ \A j \in 1..(i - 1) : ~Pred(items[j])]
    ELSE Undef

\* the ids getAttributesDefinitionAsObject filters out
StructuralIds == {Str("id"), Str("source"), Str("target")}

\* getAttributesDefinitionAsObject(attributes): the descriptors, or thrown
getAttributesDefinitionAsObject(attributes) ==
    IF attributes.t = "undefined" THEN [thrown |-> FALSE, list |-> <<>>]
    ELSE LET attributesArray == AsArray(Prop(attributes, "attribute"))
             kept == SelectSeq(attributesArray,
                         LAMBDA a : a.t \in {"undefined", "null"}
                                    \/ Prop(a, P("id")) \notin StructuralIds)
         IN  IF \E i \in 1..Len(attributesArray) :
                    attributesArray[i].t \in {"undefined", "null"}
             THEN [thrown |-> TRUE, list |-> <<>>]
             ELSE [thrown |-> FALSE,
                   list |-> List([i \in 1..Len(kept) |->
                       [id |-> Prop(kept[i], P("id")),
                        title |-> Prop(kept[i], P("title")),
                        type |-> gexfTypeToJSON(Prop(kept[i], P("type")))]])]

\* `rgb(${value.r}, ${value.g}, ${value.b})`
RgbText(r, g, b) ==
    Str(RgbString(Template(r), Template(g), Template(b)))

\* the forEach over the attvalue array in getGexfElementAttributes
RECURSIVE GexfAttvalues(_, _, _)
GexfAttvalues(arr, i, attrs) ==
    CASE Evaluated(attrs) /\ i > Len(arr) -> Obj(attrs)
      [] i <= Len(arr) /\ arr[i].t \in {"undefined", "null"} -> Throw("TypeError")
      [] OTHER ->
            GexfAttvalues(arr, i + 1,
                SetE(attrs, Template(Prop(arr[i], P("for"))), Prop(arr[i], P("value"))))

\* the switch of getGexfElementAttributes on a child tag
GexfChild(data, key, value) ==
    CASE key = "color" ->
            SetE(data, "color",
                 tinycolor2(RgbText(Prop(value, P("r")), Prop(value, P("g")), Prop(value, P("b")))))
      [] key = "position" ->
            LET xy == SetE(SetE(data, "x", ToNumber(Prop(value, P("x")))),
                           "y", ToNumber(Prop(value, P("y"))))
            IN  IF Prop(value, P("z")).t # "undefined"
                THEN SetE(xy, "z", ToNumber(Prop(value, P("z"))))
                ELSE xy
      [] key = "size" -> SetE(data, "size", ToNumber(Prop(value, P("value"))))
      [] key = "thickness" -> SetE(data, "size", ToNumber(Prop(value, P("value"))))
      [] key = "shape" -> SetE(data, "size", ToNumber(Prop(value, P("value"))))
      [] OTHER -> SetE(data, key, value)

\* the forEach over Object.entries(element) in getGexfElementAttributes
RECURSIVE GexfEntries(_, _, _)
GexfEntry(data, key, value) ==
    CASE key = "attvalues" ->
            SetE(data, "attributes",
                 GexfAttvalues(AsArray(Prop(value, "attvalue")), 1,
                               GetE(data, "attributes").o))
      [] HasPrefix(key) -> SetE(data, StripPrefix(key), value)
      [] OTHER -> GexfChild(data, key, value)

GexfEntries(es, i, data) ==
    CASE IsThrow(GetE(data, "attributes")) -> GetE(data, "attributes")
      [] ~IsThrow(GetE(data, "attributes")) /\ i > Len(es) -> Obj(data)
      [] OTHER -> GexfEntries(es, i + 1, GexfEntry(data, es[i].k, es[i].val))

\* getGexfElementAttributes(element): the element, or the exception thrown
getGexfElementAttributes(element) ==
    IF element.t \in {"undefined", "null"} THEN Throw("TypeError")
    ELSE GexfEntries(element.o, 1, <<E("attributes", Obj(<<>>))>>)

\* x.map(f) for an importer of elements f: the elements, or thrown when x is
\* not an array or f throws
MapElements(x, f(_)) ==
    IF x.t # "array" THEN [thrown |-> TRUE, list |-> <<>>]
    ELSE LET list == List([i \in 1..Len(x.o) |-> f(x.o[i].val)])
         IN  IF \E i \in 1..Len(list) : IsThrow(list[i])
             THEN [thrown |-> TRUE, list |-> <<>>]
             ELSE [thrown |-> FALSE, list |-> list]

\* the graph attributes fromGexf reads from the graph tag
GexfGraphAttributes(graph) ==
    LET id == Prop(graph, P("id"))
        edgeType == Prop(graph, P("defaultedgetype"))
        mode == Prop(graph, P("mode"))
        a1 == IF id.t # "undefined" THEN SetE(DefaultGraphAttributes, "id", id)
              ELSE DefaultGraphAttributes
        a2 == IF edgeType.t # "undefined" THEN SetE(a1, "edgeType", edgeType) ELSE a1
        a3 == IF mode.t # "undefined" THEN SetE(a2, "id", mode) ELSE a2
    IN  Obj(a3)

\* the class of an attributes block
IsClass(attribute, class) == Prop(attribute, P("class")) = Str(class)

\* the second try block of fromGexf: the instance, or thrown
GexfInterpret(h, parsedResult) ==
    LET graph == Prop(Prop(parsedResult, "gexf"), "graph")
        attributes == Prop(graph, "attributes")
        attributesArray == AsArray(attributes)
        na == IF attributes.t = "undefined" THEN [thrown |-> FALSE, list |-> <<>>]
              ELSE getAttributesDefinitionAsObject(
                       Find(attributesArray, LAMBDA a : IsClass(a, "node")))
        ea == IF attributes.t = "undefined" THEN [thrown |-> FALSE, list |-> <<>>]
              ELSE getAttributesDefinitionAsObject(
                       Find(attributesArray, LAMBDA a : IsClass(a, "edge")))
        nodes == MapElements(Prop(Prop(graph, "nodes"), "node"), getGexfElementAttributes)
        edges == MapElements(Prop(Prop(graph, "edges"), "edge"), getGexfElementAttributes)
    IN  IF IsThrow(graph) \/ IsThrow(attributes) \/ na.thrown \/ ea.thrown
           \/ nodes.thrown \/ edges.thrown
        THEN [thrown |-> TRUE, heap |-> h, graph |-> NoGraph]
        ELSE [thrown |-> FALSE,
              heap |-> h \o nodes.list \o edges.list,
              graph |-> NewGraph(NewRefs(h, Len(nodes.list)),
                                 NewRefs(h \o nodes.list, Len(edges.list)),
                                 na.list, ea.list, GexfGraphAttributes(graph))]

\* an XML importer: the first try block around the parser, the second
\* around the interpretation of the tree
XmlImport(h, graphData, Interpret(_, _)) ==
    LET parsedResult == XMLParser_parse(graphData)
        r == Interpret(h, parsedResult)
    IN  IF IsThrow(parsedResult)
        THEN [heap |-> h, err |-> ParseError(parsedResult.v), graph |-> NoGraph]
        ELSE IF r.thrown
        THEN [heap |-> h, err |-> MalformedError, graph |-> NoGraph]
        ELSE [heap |-> r.heap, err |-> NoError, graph |-> r.graph]

\* an importer without the second try block: the exception of the
\* interpretation reaches the caller
XmlImportUncaught(h, graphData, Interpret(_, _)) ==
    LET parsedResult == XMLParser_parse(graphData)
        r == Interpret(h, parsedResult)
    IN  IF IsThrow(parsedResult)
        THEN [heap |-> h, err |-> ParseError(parsedResult.v), graph |-> NoGraph]
        ELSE IF r.thrown
        THEN [heap |-> h, err |-> TypeError, graph |-> NoGraph]
        ELSE [heap |-> r.heap, err |-> NoError, graph |-> r.graph]
fromGexfUncaught(h, graphData) == XmlImportUncaught(h, graphData, GexfInterpret)

\* fromGexf(graphData) on the heap h
fromGexf(h, graphData) == XmlImport(h, graphData, GexfInterpret)

(***************************************************************************)
(* fromGraphml                                                             *)
(***************************************************************************)
\* graphmlTypeToJSON(type)
graphmlTypeToJSON(type) ==
    IF type.t = "string" /\ type.v \in {"int", "long", "double", "float"} THEN "number"
    ELSE IF type.t = "string" /\ type.v = "boolean" THEN "boolean"
    ELSE "string"

\* the test of keys.forEach that returns without keeping the key
GraphmlKeySkipped(key) == key = Str("id") \/ key = Str("source") \/ key = Str("target")

\* keys.forEach of fromGraphml for the role `role`
GraphmlKeys(keys, role) ==
    LET mine == SelectSeq(keys,
                    LAMBDA key : ~GraphmlKeySkipped(key) /\ Prop(key, P("for")) = Str(role))
    IN  List([i \in 1..Len(mine) |->
            [id |-> Prop(mine[i], P("id")),
             title |-> Prop(mine[i], P("attr.name")),
             type |-> graphmlTypeToJSON(Prop(mine[i], P("attr.type")))]])

\* the graph attributes fromGraphml reads from the graph tag
GraphmlGraphAttributes(graph) ==
    LET id == Prop(graph, P("id"))
        edgeType == Prop(graph, P("edgedefault"))
        a0 == <<E("edgeType", Str("undirected")), E("mode", Str("static")),
                E("id", Str("graph"))>>
        a1 == IF id.t # "undefined" THEN SetE(a0, "id", id) ELSE a0
        a2 == IF edgeType.t # "undefined" THEN SetE(a1, "edgeType", edgeType) ELSE a1
    IN  Obj(a2)

\* the forEach over the data array in getGraphmlElementAttributes
RECURSIVE GraphmlData(_, _, _)
GraphmlData(arr, i, attrs) ==
    CASE Evaluated(attrs) /\ i > Len(arr) -> Obj(attrs)
      [] i <= Len(arr) /\ arr[i].t \in {"undefined", "null"} -> Throw("TypeError")
      [] OTHER ->
            GraphmlData(arr, i + 1,
                SetE(attrs, Template(Prop(arr[i], P("key"))), Prop(arr[i], "#text")))

\* the forEach over Object.entries(element) in getGraphmlElementAttributes
RECURSIVE GraphmlEntries(_, _, _)
GraphmlEntry(data, key, value) ==
    CASE key = "data" ->
            SetE(data, "attributes",
                 GraphmlData(AsArray(value), 1, GetE(data, "attributes").o))
      [] HasPrefix(key) -> SetE(data, StripPrefix(key), value)
      [] OTHER -> data

GraphmlEntries(es, i, data) ==
    CASE IsThrow(GetE(data, "attributes")) -> GetE(data, "attributes")
      [] ~IsThrow(GetE(data, "attributes")) /\ i > Len(es) -> Obj(data)
      [] OTHER -> GraphmlEntries(es, i + 1, GraphmlEntry(data, es[i].k, es[i].val))

\* elementData.attributes without the key
DelAttr(data, key) == SetE(data, "attributes", Obj(DelE(GetE(data, "attributes").o, key)))
Attr(data, key) == GetE(GetE(data, "attributes").o, key)

\* if the three of r, g and b are set, they become the color
GraphmlColor(data) ==
    IF Attr(data, "r").t # "undefined" /\ Attr(data, "g").t # "undefined"
       /\ Attr(data, "b").t # "undefined"
    THEN DelAttr(DelAttr(DelAttr(
             SetE(data, "color",
                  tinycolor2(RgbText(Attr(data, "r"), Attr(data, "g"), Attr(data, "b")))),
             "r"), "g"), "b")
    ELSE data

\* if (elementData.attributes[tested] <cond>) { elementData[field] =
\* elementData.attributes[field]; delete elementData.attributes[field] }
Promote(data, tested, field, Cond(_)) ==
    IF Cond(Attr(data, tested))
    THEN DelAttr(SetE(data, field, Attr(data, field)), field)
    ELSE data

IsDefined(x) == x.t # "undefined"

RECURSIVE PromoteTruthy(_, _, _)
PromoteTruthy(data, fields, i) ==
    CASE Evaluated(data) /\ i > Len(fields) -> data
      [] OTHER ->
            PromoteTruthy(Promote(data, fields[i], fields[i], Truthy), fields, i + 1)

\* the fields getGraphmlElementAttributes promotes when their value is truthy
TruthyPromoted ==
    <<"size", "shape", "thickness", "weight", "label", "edgelabel", "start", "end">>

\* getGraphmlElementAttributes(element): the element, or the exception thrown
GraphmlPromoted(d0) ==
    LET d1 == GraphmlColor(d0)
        d2 == Promote(d1, "x", "x", IsDefined)
        d3 == Promote(d2, "y", "y", IsDefined)
        d4 == Promote(d3, "x", "z", IsDefined)
    IN  IF Evaluated(d1) /\ Evaluated(d2) /\ Evaluated(d3)
        THEN PromoteTruthy(d4, TruthyPromoted, 1)
        ELSE d0

getGraphmlElementAttributes(element) ==
    LET d0 == GraphmlEntries(element.o, 1, <<E("attributes", Obj(<<>>))>>)
    IN  CASE element.t \in {"undefined", "null"} -> Throw("TypeError")
          [] IsThrow(d0) -> d0
          [] OTHER -> Obj(GraphmlPromoted(d0.o))

\* the second try block of fromGraphml: the instance, or thrown
GraphmlInterpret(h, parsedResult) ==
    LET graphml == Prop(parsedResult, "graphml")
        key == Prop(graphml, "key")
        keys == IF key.t = "undefined" THEN <<>> ELSE AsArray(key)
        graph == Prop(graphml, "graph")
        id == Prop(graph, P("id"))
        nodes == MapElements(Prop(graph, "node"), getGraphmlElementAttributes)
        edges == MapElements(Prop(graph, "edge"), getGraphmlElementAttributes)
    IN  IF IsThrow(key) \/ IsThrow(id) \/ nodes.thrown \/ edges.thrown
        THEN [thrown |-> TRUE, heap |-> h, graph |-> NoGraph]
        ELSE [thrown |-> FALSE,
              heap |-> h \o nodes.list \o edges.list,
              graph |-> NewGraph(NewRefs(h, Len(nodes.list)),
                                 NewRefs(h \o nodes.list, Len(edges.list)),
                                 GraphmlKeys(keys, "node"), GraphmlKeys(keys, "edge"),
                                 GraphmlGraphAttributes(graph))]

\* fromGraphml(graphData) on the heap h
fromGraphml(h, graphData) == XmlImport(h, graphData, GraphmlInterpret)

(***************************************************************************)
(* toGexf                                                                  *)
(***************************************************************************)
\* text.replace(new RegExp(/&/, 'g'), "&amp;")
EscapeAmp(s) ==
    CASE s = "a&b" -> "a&amp;b"
      [] s = "a&amp;b" -> "a&amp;amp;b"
      [] OTHER -> s

\* jsonTypeToGEXF(type)
jsonTypeToGEXF(type) ==
    IF type = "number" THEN "double" ELSE IF type = "boolean" THEN "boolean" ELSE "string"

\* Number.isNaN(value)
IsNaN(x) == x.t = "number" /\ x.v = "NaN"

\* the entries of the attributes map as attvalue objects
GexfAttvalueList(attrs) ==
    List([i \in 1..Len(attrs) |->
        Obj(<<E(P("for"), Str(attrs[i].k)),
              E(P("value"), Str(EscapeAmp(Template(attrs[i].val))))>>)])

\* the default branch of the switch of getElementAsGexfJSON: the value set
\* on the element object, or the exception thrown (NaN has no replace)
GexfDefault(value) == IF IsNaN(value) THEN Throw("TypeError") ELSE value

\* the switch of getElementAsGexfJSON on one entry of the element
GexfSwitch(obj, key, value) ==
    CASE key = "attributes" ->
            SetE(obj, "attvalues",
                 Obj(<<E("attvalue",
                         Arr(Items(GetE(GetE(obj, "attvalues").o, "attvalue"))
                             \o GexfAttvalueList(value.o)))>>))
      [] key = "size" -> SetE(obj, "viz:size", Obj(<<E(P("value"), value)>>))
      [] key = "shape" -> SetE(obj, "viz:shape", Obj(<<E(P("value"), value)>>))
      [] key = "thickness" -> SetE(obj, "viz:thickness", Obj(<<E(P("value"), value)>>))
      [] key = "color" ->
            SetE(obj, "viz:color",
                 Obj(<<E(P("r"), toRgb(tinycolor2(value)).r),
                       E(P("g"), toRgb(tinycolor2(value)).g),
                       E(P("b"), toRgb(tinycolor2(value)).b)>>))
      [] key \in {"x", "y", "z"} -> obj
      [] OTHER -> SetE(obj, P(key), GexfDefault(value))

RECURSIVE GexfElementEntries(_, _, _)
GexfElementEntries(es, i, obj) ==
    CASE Evaluated(obj) /\ i > Len(es) -> obj
      [] OTHER ->
            GexfElementEntries(es, i + 1, GexfSwitch(obj, es[i].k, es[i].val))

\* the viz:position of an element: the coordinates that are set
GexfPosition(e) ==
    LET px == IF GetE(e, "x").t # "undefined" THEN <<E(P("x"), GetE(e, "x"))>> ELSE <<>>
        py == IF GetE(e, "y").t # "undefined" THEN <<E(P("y"), GetE(e, "y"))>> ELSE <<>>
        pz == IF GetE(e, "z").t # "undefined" THEN <<E(P("z"), GetE(e, "z"))>> ELSE <<>>
    IN  px \o py \o pz

\* getElementAsGexfJSON(element): the element object, or the exception thrown
getElementAsGexfJSON(element) ==
    LET obj == GexfElementEntries(element.o, 1,
                   <<E("attvalues", Obj(<<E("attvalue", Arr(<<>>))>>))>>)
        pos == GexfPosition(element.o)
    IN  IF \E i \in 1..Len(obj) : IsThrow(obj[i].val) THEN Throw("TypeError")
        ELSE IF Len(pos) = 0 THEN Obj(obj)
        ELSE Obj(SetE(obj, "viz:position", Obj(pos)))

\* the attribute declarations of one class in toGexf
GexfDeclarations(attributes) ==
    List([i \in 1..Len(attributes) |->
        Obj(<<E(P("id"), attributes[i].id),
              E(P("title"), attributes[i].title),
              E(P("type"), Str(jsonTypeToGEXF(attributes[i].type)))>>)])

\* the value toGexf gives the defaultedgetype attribute
GexfEdgeType(edgeType) == edgeType

\* the "?xml" entry of the root objects
XmlDeclaration ==
    E("?xml", Obj(<<E(P("version"), Str("1.0")), E(P("encoding"), Str("UTF-8"))>>))

\* the root object of toGexf
GexfRoot(nodes, edges, gr) ==
    Obj(<<XmlDeclaration,
          E("gexf", Obj(<<
              E("graph", Obj(<<
                  E("attributes", Arr(<<
                      Obj(<<E("attribute", Arr(GexfDeclarations(gr.nodeAttributes))),
                            E(P("class"), Str("node")), E(P("mode"), Str("static"))>>),
                      Obj(<<E("attribute", Arr(GexfDeclarations(gr.edgeAttributes))),
                            E(P("class"), Str("edge")), E(P("mode"), Str("static"))>>)>>)),
                  E("nodes", Obj(<<E("node", Arr(nodes))>>)),
                  E("edges", Obj(<<E("edge", Arr(edges))>>)),
                  E(P("id"), GetE(gr.graphAttributes.o, "id")),
                  E(P("mode"), GetE(gr.graphAttributes.o, "mode")),
                  E(P("defaultedgetype"),
                    GexfEdgeType(GetE(gr.graphAttributes.o, "edgeType")))>>)),
              E(P("version"), Num("1.3")),
              E(P("xmlns:viz"), Str("http://www.gexf.net/1.3/viz")),
              E(P("xmlns:xsi"), Str("http://www.w3.org/2001/XMLSchema-instance")),
              E(P("xmlns"), Str("http://www.gexf.net/1.3")),
              E(P("xsi:schemaLocation"),
                Str("http://www.gexf.net/1.3 http://www.gexf.net/1.3/gexf.xsd"))>>))>>)

\* an XML exporter: the elements through toElement, then the root to the builder
XmlExport(h, gr, kind, toElement(_), Root(_, _, _)) ==
    LET nodes == List([i \in 1..Len(gr.nodes) |-> toElement(h[gr.nodes[i]])])
        edges == List([i \in 1..Len(gr.edges) |-> toElement(h[gr.edges[i]])])
    IN  IF \/ \E i \in 1..Len(nodes) : IsThrow(nodes[i])
           \/ \E i \in 1..Len(edges) : IsThrow(edges[i])
        THEN [heap |-> h, err |-> TypeError, out |-> NoDocument]
        ELSE [heap |-> h, err |-> NoError,
              out |-> Document(kind, FALSE, <<>>, FALSE, <<>>, Undef,
                               XMLBuilder_build(Root(nodes, edges, gr)))]

\* toGexf() of the instance gr on the heap h
toGexf(h, gr) == XmlExport(h, gr, "gexf", getElementAsGexfJSON, GexfRoot)

(***************************************************************************)
(* toGraphml                                                               *)
(***************************************************************************)
\* jsonTypeToGRAPHML(type)
jsonTypeToGRAPHML(type) ==
    IF type = "number" THEN "double" ELSE IF type = "boolean" THEN "boolean" ELSE "string"

\* one key declaration
GraphmlKey(name, type, for, id) ==
    Obj(<<E(P("attr.name"), name), E(P("attr.type"), Str(type)),
          E(P("for"), Str(for)), E(P("id"), id)>>)

\* the keys of the descriptors of one role
GraphmlDeclaredKeys(attributes, role) ==
    List([i \in 1..Len(attributes) |->
        GraphmlKey(attributes[i].title, jsonTypeToGRAPHML(attributes[i].type), role,
                   attributes[i].id)])

\* a does...NotExist flag after the two passes: false when a descriptor with
\* one of the ids was seen, else whether some element carries the field
NotExistFlag(h, attributes, ids, refs, field) ==
    IF \E i \in 1..Len(attributes) : attributes[i].id \in {Str(id) : id \in ids}
    THEN FALSE
    ELSE \E i \in 1..Len(refs) : GetE(h[refs[i]].o, field).t # "undefined"

\* the key pushed for a field when its flag is set
SynthKey(flag, field, type, role) ==
    IF flag THEN <<GraphmlKey(Str(field), type, role, Str(field))>> ELSE <<>>

\* the r, g and b keys pushed for a role when its color flag is set
SynthColorKeys(flag, role) ==
    SynthKey(flag, "r", "int", role) \o SynthKey(flag, "g", "int", role)
        \o SynthKey(flag, "b", "int", role)

\* the keys toGraphml adds after those of the descriptors, in its order
GraphmlSynthesizedKeys(h, gr) ==
    LET N(field) == NotExistFlag(h, gr.nodeAttributes, {field}, gr.nodes, field)
        Ed(field) == NotExistFlag(h, gr.edgeAttributes, {field}, gr.edges, field)
        colorIds == {"color", "r", "g", "b"}
    IN  SynthKey(N("x"), "x", "float", "node") \o SynthKey(N("y"), "y", "float", "node")
        \o SynthKey(N("z"), "z", "float", "node")
        \o SynthKey(Ed("x"), "x", "float", "edge") \o SynthKey(Ed("y"), "y", "float", "edge")
        \o SynthKey(Ed("z"), "z", "float", "edge")
        \o SynthKey(N("label"), "label", "string", "node")
        \o SynthKey(Ed("label"), "label", "string", "edge")
        \o SynthKey(Ed("edgelabel"), "edgelabel", "string", "edge")
        \o SynthKey(N("size"), "size", "float", "node")
        \o SynthKey(N("shape"), "shape", "string", "node")
        \o SynthKey(Ed("size"), "size", "float", "edge")
        \o SynthKey(Ed("shape"), "shape", "string", "edge")
        \o SynthKey(Ed("weight"), "weight", "float", "edge")
        \o SynthKey(Ed("thickness"), "thickness", "float", "edge")
        \o SynthColorKeys(NotExistFlag(h, gr.nodeAttributes, colorIds, gr.nodes, "color"),
                          "node")
        \o SynthColorKeys(NotExistFlag(h, gr.edgeAttributes, colorIds, gr.edges, "color"),
                          "edge")

\* an edgedefault that is the edgeType as it is
GraphmlEdgeDefaultAsIs(edgeType) == edgeType

\* the value toGraphml gives the edgedefault attribute
GraphmlEdgeDefault(edgeType) ==
    IF edgeType = Str("mutual") THEN Str("directed") ELSE edgeType

\* one data entry
GraphmlDataEntry(key, text) == Obj(<<E(P("key"), Str(key)), E("#text", text)>>)

\* the entries of the attributes map as data entries
GraphmlAttributeData(attrs) ==
    List([i \in 1..Len(attrs) |->
        GraphmlDataEntry(attrs[i].k, Str(EscapeAmp(Template(attrs[i].val))))])

\* elementObject.data.push(...)
PushData(obj, entries) ==
    SetE(obj, "data", Arr(Items(GetE(obj, "data")) \o entries))

\* the switch of getElementAsGraphmlJSON on one entry of the element
GraphmlSwitch(obj, key, value) ==
    CASE key = "attributes" -> PushData(obj, GraphmlAttributeData(value.o))
      [] key \in {"id", "source", "target"} -> SetE(obj, P(key), value)
      [] key = "color" ->
            PushData(obj, <<GraphmlDataEntry("r", toRgb(tinycolor2(value)).r),
                            GraphmlDataEntry("g", toRgb(tinycolor2(value)).g),
                            GraphmlDataEntry("b", toRgb(tinycolor2(value)).b)>>)
      [] OTHER -> PushData(obj, <<GraphmlDataEntry(key, Str(EscapeAmp(Template(value))))>>)

RECURSIVE GraphmlElementEntries(_, _, _)
GraphmlElementEntries(es, i, obj) ==
    CASE Evaluated(obj) /\ i > Len(es) -> obj
      [] OTHER ->
            GraphmlElementEntries(es, i + 1, GraphmlSwitch(obj, es[i].k, es[i].val))

\* getElementAsGraphmlJSON(element)
getElementAsGraphmlJSON(element) ==
    Obj(GraphmlElementEntries(element.o, 1, <<E("data", Arr(<<>>))>>))

\* the keys of the output of toGraphml, in the order of the pushes
GraphmlAllKeys(h, gr) ==
    GraphmlDeclaredKeys(gr.nodeAttributes, "node")
        \o GraphmlDeclaredKeys(gr.edgeAttributes, "edge")
        \o GraphmlSynthesizedKeys(h, gr)

\* the root object of toGraphml, given its keys
GraphmlRootOf(keys, nodes, edges, gr) ==
    Obj(<<XmlDeclaration,
          E("graphml", Obj(<<
              E("key", Arr(keys)),
              E("graph", Obj(<<
                  E("node", Arr(nodes)),
                  E("edge", Arr(edges)),
                  E(P("edgedefault"),
                    GraphmlEdgeDefault(GetE(gr.graphAttributes.o, "edgeType"))),
                  E(P("id"), GetE(gr.graphAttributes.o, "id"))>>)),
              E(P("xmlns"), Str("http://graphml.graphdrawing.org/xmlns"))>>))>>)

\* toGraphml() of the instance gr on the heap h
toGraphml(h, gr) ==
    XmlExport(h, gr, "graphml", getElementAsGraphmlJSON,
              LAMBDA nodes, edges, g : GraphmlRootOf(GraphmlAllKeys(h, g), nodes, edges, g))

(***************************************************************************)
(* The documents a caller hands to the importers.                          *)
(***************************************************************************)
SeqsUpTo(S, n) == UNION {[1..k -> S] : k \in 0..n}
Id(prefix, i) == Str(prefix \o ToString(i))
Attributes(entries) == E("attributes", Obj(entries))

\* JSON nodes, without their id
JsonNodeBodies ==
    {<<>>,
     <<Attributes(<<E("a", Num("1"))>>)>>,
     <<Attributes(<<E("a", Str("s"))>>)>>,
     <<E("a", Bool("true"))>>,
     <<E("label", Str("a&b")), E("size", Num("1")), E("shape", Str("disc")),
       E("x", Num("0")), E("y", Num("1")), E("color", Str("#ff0000")),
       Attributes(<<E("a", Num("1"))>>)>>,
     <<E("color", Str("red")), Attributes(<<E("r", Num("1"))>>)>>,
     <<E("thickness", Num("2")), E("a", Num("2")), E("label", Str("b")),
       Attributes(<<E("a", Str("s")), E("label", Str("c"))>>)>>}

\* JSON edges, without their id, source and target
JsonEdgeBodies ==
    {<<>>,
     <<E("size", Num("2"))>>,
     <<E("weight", Num("1")), E("size", Num("2")), Attributes(<<E("a", Num("1"))>>)>>,
     <<E("label", Str("b")), E("color", Str("#0000ff")), E("thickness", Num("1")),
       Attributes(<<E("a", Str("s")), E("t", Str("a&b"))>>)>>,
     <<E("weight", Num("NaN")), Attributes(<<E("a", Bool("false"))>>)>>}

\* the graph attributes of a JSON document: absent, partial or complete
JsonGraphAttributes ==
    {Undef,
     Obj(<<E("edgeType", Str("mutual"))>>),
     Obj(<<E("id", Str("g1")), E("edgeType", Str("directed")), E("mode", Str("dynamic"))>>)}

JsonNode(i, body) == Obj(<<E("id", Id("n", i))>> \o body)
JsonEdge(i, body) ==
    Obj(<<E("id", Id("e", i)), E("source", Str("n1")), E("target", Str("n2"))>> \o body)

\* nodes and edges every format of the model can carry
PlainNodes == <<<<Attributes(<<E("a", Num("1"))>>)>>, <<Attributes(<<E("a", Num("2"))>>)>>>>
PlainEdges == <<<<Attributes(<<E("a", Num("1"))>>)>>, <<Attributes(<<E("a", Str("s"))>>)>>>>

\* a document of nodes and edges, before its elements get their ids
Input(ns, es, ga, hn, he) ==
    [nodes |-> ns, edges |-> es, attributes |-> ga, hasNodes |-> hn, hasEdges |-> he]

\* the JSON documents of plain elements: with or without nodes, edges and
\* graph attributes
PlainJsonInputs ==
    {Input(PlainNodes, PlainEdges, ga, hn, he) :
        ga \in JsonGraphAttributes, hn \in BOOLEAN, he \in BOOLEAN}

\* the JSON documents of the model
JsonInputs ==
    {Input(ns, PlainEdges, Undef, TRUE, TRUE) : ns \in SeqsUpTo(JsonNodeBodies, MaxElems)}
    \cup
    {Input(PlainNodes, es, Undef, TRUE, TRUE) : es \in SeqsUpTo(JsonEdgeBodies, MaxElems)}
    \cup PlainJsonInputs

\* the heap and the document of a JSON input
JsonHeap(in) ==
    List([i \in 1..Len(in.nodes) |-> JsonNode(i, in.nodes[i])])
        \o List([i \in 1..Len(in.edges) |-> JsonEdge(i, in.edges[i])])
JsonDocument(kind, in) ==
    Document(kind, in.hasNodes,
             IF in.hasNodes THEN List([i \in 1..Len(in.nodes) |-> i]) ELSE <<>>,
             in.hasEdges,
             IF in.hasEdges THEN List([i \in 1..Len(in.edges) |-> Len(in.nodes) + i])
             ELSE <<>>,
             in.attributes, Undef)

\* graphology nodes and edges, without their key (and source, target)
GraphologyNodeBodies ==
    {<<>>,
     <<Attributes(<<E("a", Num("1"))>>)>>,
     <<Attributes(<<E("label", Str("b")), E("size", Num("1")), E("color", Str("red")),
                    E("a", Str("s"))>>)>>}
GraphologyEdgeBodies ==
    {<<>>,
     <<E("undirected", Bool("true")), Attributes(<<E("weight", Num("2"))>>)>>,
     <<Attributes(<<E("a", Num("1")), E("size", Num("2"))>>)>>}
GraphologyGraphAttributes ==
    {Undef,
     Obj(<<E("name", Str("g1")), E("id", Str("g1")), E("edgeType", Str("directed")),
           E("mode", Str("static"))>>)}

GraphologyDocNode(i, body) == Obj(<<E("key", Id("n", i))>> \o body)
GraphologyDocEdge(i, body) ==
    Obj(<<E("key", Id("e", i)), E("source", Str("n1")), E("target", Str("n2"))>> \o body)

PlainGraphologyInputs ==
    {Input(<<<<>>, <<>>>>, <<<<>>, <<>>>>, ga, hn, he) :
        ga \in GraphologyGraphAttributes, hn \in BOOLEAN, he \in BOOLEAN}

GraphologyInputs ==
    {Input(ns, <<<<>>, <<>>>>, Undef, TRUE, TRUE) :
        ns \in SeqsUpTo(GraphologyNodeBodies, MaxElems)}
    \cup
    {Input(<<<<>>, <<>>>>, es, Undef, TRUE, TRUE) :
        es \in SeqsUpTo(GraphologyEdgeBodies, MaxElems)}
    \cup PlainGraphologyInputs

GraphologyHeap(in) ==
    List([i \in 1..Len(in.nodes) |-> GraphologyDocNode(i, in.nodes[i])])
        \o List([i \in 1..Len(in.edges) |-> GraphologyDocEdge(i, in.edges[i])])

\* an XML document: its text, as the tree the builder would make the text of
XmlDocument(kind, tree) == Document(kind, FALSE, <<>>, FALSE, <<>>, Undef, tree)

\* a text that is not well-formed XML: the parser raises on it
NotXml == Throw("Error: Unclosed tag")

\* <attvalue for=".." value=".."/>
Attvalue(for, value) == Obj(<<E(P("for"), Str(for)), E(P("value"), value)>>)
Attvalues(list) == E("attvalues", Obj(<<E("attvalue", Arr(list))>>))
Viz(tag, entries) == E(tag, Obj(entries))

\* GEXF nodes and edges, without their id (and source, target)
GexfNodeBodies ==
    {<<>>,
     <<Attvalues(<<Attvalue("a", Num("1"))>>)>>,
     <<E(P("label"), Str("b")), Attvalues(<<Attvalue("a", Str("s")), Attvalue("b", Num("2"))>>)>>,
     <<Attvalues(<<Attvalue("a", Num("2"))>>),
       Viz("viz:color", <<E(P("r"), Num("255")), E(P("g"), Num("0")), E(P("b"), Num("0"))>>),
       Viz("viz:position", <<E(P("x"), Num("0")), E(P("y"), Num("1"))>>),
       Viz("viz:size", <<E(P("value"), Num("2"))>>)>>,
     <<Attvalues(<<Attvalue("a", Num("1"))>>), Viz("viz:shape", <<E(P("value"), Str("disc"))>>)>>}
GexfEdgeBodies ==
    {<<>>,
     <<E(P("weight"), Num("2")), Attvalues(<<Attvalue("a", Num("1"))>>)>>,
     <<E(P("label"), Str("b")), Attvalues(<<Attvalue("a", Str("s"))>>),
       Viz("viz:thickness", <<E(P("value"), Num("1"))>>)>>,
     <<Viz("viz:size", <<E(P("value"), Num("2"))>>)>>}

GexfNode(i, body) == Obj(<<E(P("id"), Id("n", i))>> \o body)
GexfEdge(i, body) ==
    Obj(<<E(P("id"), Id("e", i)), E(P("source"), Str("n1")), E(P("target"), Str("n2"))>>
        \o body)

PlainGexfNodes ==
    <<<<Attvalues(<<Attvalue("a", Num("1"))>>)>>, <<Attvalues(<<Attvalue("a", Num("2"))>>)>>>>
PlainGexfEdges ==
    <<<<Attvalues(<<Attvalue("a", Num("1"))>>)>>, <<Attvalues(<<Attvalue("a", Str("s"))>>)>>>>

\* <attributes class=".." mode="static"> with its <attribute> declarations
GexfAttributeBlock(class, declarations) ==
    Obj(<<E("attribute", Arr(declarations)), E(P("class"), Str(class)),
          E(P("mode"), Str("static"))>>)
GexfAttribute(id, type) ==
    Obj(<<E(P("id"), Str(id)), E(P("title"), Str(id)), E(P("type"), Str(type))>>)

\* the attributes blocks of a GEXF document: none, one, two, one without
\* declarations, one that declares an id twice
GexfBlocks ==
    {<<>>,
     <<GexfAttributeBlock("node", <<GexfAttribute("a", "integer"), GexfAttribute("a", "string")>>)>>,
     <<GexfAttributeBlock("node", <<GexfAttribute("a", "integer")>>)>>,
     <<GexfAttributeBlock("node", <<GexfAttribute("a", "integer"), GexfAttribute("b", "string")>>),
       GexfAttributeBlock("edge", <<GexfAttribute("a", "string")>>)>>,
     <<GexfAttributeBlock("node", <<>>), GexfAttributeBlock("edge", <<>>)>>}
BothGexfBlocks ==
    <<GexfAttributeBlock("node", <<GexfAttribute("a", "integer")>>),
      GexfAttributeBlock("edge", <<GexfAttribute("a", "string")>>)>>

\* the XML attributes of a graph tag: each is there or not
TagAttribute(name, value) == IF value = Undef THEN <<>> ELSE <<E(P(name), value)>>
GexfGraphTags ==
    {TagAttribute("id", id) \o TagAttribute("mode", mode)
        \o TagAttribute("defaultedgetype", type) :
        id \in {Undef, Str("g1")}, mode \in {Undef, Str("dynamic")},
        type \in {Undef, Str("directed"), Str("mutual")}}

\* a GEXF document with its graph tag
GexfTree(blocks, nodes, edges, tag) ==
    Obj(<<XmlDeclaration,
          E("gexf", Obj(<<
              E("graph", Obj(<<E("attributes", Arr(blocks)),
                               E("nodes", Obj(<<E("node", Arr(nodes))>>)),
                               E("edges", Obj(<<E("edge", Arr(edges))>>))>> \o tag)),
              E(P("version"), Num("1.3"))>>))>>)

GexfNodes(bodies) == List([i \in 1..Len(bodies) |-> GexfNode(i, bodies[i])])
GexfEdges(bodies) == List([i \in 1..Len(bodies) |-> GexfEdge(i, bodies[i])])

\* the GEXF documents of plain elements, with any graph tag
PlainGexfInputs ==
    {GexfTree(BothGexfBlocks, GexfNodes(PlainGexfNodes), GexfEdges(PlainGexfEdges), tag) :
        tag \in GexfGraphTags}

\* the GEXF documents of the model, and texts that are not GEXF documents
GexfInputs ==
    {GexfTree(BothGexfBlocks, GexfNodes(ns), GexfEdges(PlainGexfEdges), <<>>) :
        ns \in SeqsUpTo(GexfNodeBodies, MaxElems)}
    \cup
    {GexfTree(BothGexfBlocks, GexfNodes(PlainGexfNodes), GexfEdges(es), <<>>) :
        es \in SeqsUpTo(GexfEdgeBodies, MaxElems)}
    \cup
    {GexfTree(blocks, GexfNodes(PlainGexfNodes), GexfEdges(PlainGexfEdges), <<>>) :
        blocks \in GexfBlocks}
    \cup PlainGexfInputs
    \cup
    {NotXml,
     Obj(<<XmlDeclaration>>),
     Obj(<<XmlDeclaration, E("gexf", Obj(<<E(P("version"), Num("1.3"))>>))>>),
     Obj(<<XmlDeclaration,
           E("gexf", Obj(<<E("graph", Obj(<<E(P("id"), Str("g1"))>>))>>))>>)}

\* <data key="..">text</data>
Data(key, text) == Obj(<<E(P("key"), Str(key)), E("#text", text)>>)

\* GraphML nodes and edges, without their id (and source, target)
GraphmlNodeBodies ==
    {<<>>,
     <<E("data", Arr(<<Data("a", Num("1"))>>))>>,
     <<E("data", Arr(<<Data("a", Str("s")), Data("label", Str("b")), Data("size", Num("0"))>>))>>,
     <<E("data", Arr(<<Data("x", Num("0")), Data("y", Num("1")), Data("z", Num("2")),
                       Data("r", Num("255")), Data("g", Num("0")), Data("b", Num("0"))>>))>>,
     <<E("data", Arr(<<Data("r", Num("1")), Data("shape", Str("disc"))>>))>>}
GraphmlEdgeBodies ==
    {<<>>,
     <<E("data", Arr(<<Data("a", Num("1"))>>))>>,
     <<E("data", Arr(<<Data("weight", Num("1")), Data("a", Str("s"))>>))>>,
     <<E("data", Arr(<<Data("size", Num("2"))>>))>>}

GraphmlNode(i, body) == Obj(<<E(P("id"), Id("n", i))>> \o body)
GraphmlEdge(i, body) ==
    Obj(<<E(P("id"), Id("e", i)), E(P("source"), Str("n1")), E(P("target"), Str("n2"))>>
        \o body)
GraphmlNodes(bodies) == List([i \in 1..Len(bodies) |-> GraphmlNode(i, bodies[i])])
GraphmlEdges(bodies) == List([i \in 1..Len(bodies) |-> GraphmlEdge(i, bodies[i])])

PlainGraphmlNodes ==
    <<<<E("data", Arr(<<Data("a", Num("1"))>>))>>, <<E("data", Arr(<<Data("a", Num("2"))>>))>>>>
PlainGraphmlEdges ==
    <<<<E("data", Arr(<<Data("a", Num("1"))>>))>>, <<E("data", Arr(<<Data("a", Str("s"))>>))>>>>

\* the key declarations of a GraphML document: none, one, several, one id
\* declared twice, a key named id
GraphmlKeyLists ==
    {<<>>,
     <<GraphmlKey(Str("id"), "string", "node", Str("id")),
       GraphmlKey(Str("a"), "int", "node", Str("a"))>>,
     <<GraphmlKey(Str("a"), "int", "edge", Str("a")),
       GraphmlKey(Str("a"), "string", "edge", Str("a"))>>,
     <<GraphmlKey(Str("a"), "int", "node", Str("a"))>>,
     <<GraphmlKey(Str("a"), "int", "node", Str("a")),
       GraphmlKey(Str("a"), "string", "edge", Str("a"))>>,
     <<GraphmlKey(Str("a"), "int", "node", Str("a")),
       GraphmlKey(Str("r"), "int", "node", Str("r")),
       GraphmlKey(Str("weight"), "double", "edge", Str("weight"))>>}
BothGraphmlKeys ==
    <<GraphmlKey(Str("a"), "int", "node", Str("a")),
      GraphmlKey(Str("a"), "string", "edge", Str("a"))>>

GraphmlGraphTags ==
    {TagAttribute("edgedefault", type) \o TagAttribute("id", id) :
        type \in {Undef, Str("directed"), Str("undirected")}, id \in {Undef, Str("g1")}}

\* a GraphML document with its graph tag
GraphmlTree(keys, nodes, edges, tag) ==
    Obj(<<XmlDeclaration,
          E("graphml", Obj(<<
              E("key", Arr(keys)),
              E("graph", Obj(<<E("node", Arr(nodes)), E("edge", Arr(edges))>> \o tag)),
              E(P("xmlns"), Str("http://graphml.graphdrawing.org/xmlns"))>>))>>)

\* the GraphML documents of plain elements, with any graph tag
PlainGraphmlInputs ==
    {GraphmlTree(BothGraphmlKeys, GraphmlNodes(PlainGraphmlNodes),
                 GraphmlEdges(PlainGraphmlEdges), tag) :
        tag \in GraphmlGraphTags}

\* the GraphML documents of the model, and texts that are not GraphML documents
GraphmlInputs ==
    {GraphmlTree(BothGraphmlKeys, GraphmlNodes(ns), GraphmlEdges(PlainGraphmlEdges), <<>>) :
        ns \in SeqsUpTo(GraphmlNodeBodies, MaxElems)}
    \cup
    {GraphmlTree(BothGraphmlKeys, GraphmlNodes(PlainGraphmlNodes), GraphmlEdges(es), <<>>) :
        es \in SeqsUpTo(GraphmlEdgeBodies, MaxElems)}
    \cup
    {GraphmlTree(keys, GraphmlNodes(PlainGraphmlNodes), GraphmlEdges(PlainGraphmlEdges), <<>>) :
        keys \in GraphmlKeyLists}
    \cup PlainGraphmlInputs
    \cup
    {NotXml,
     Obj(<<XmlDeclaration>>),
     Obj(<<XmlDeclaration,
           E("graphml", Obj(<<E(P("xmlns"), Str("http://graphml.graphdrawing.org/xmlns"))>>))>>),
     Obj(<<XmlDeclaration,
           E("graphml", Obj(<<E("graph", Obj(<<E(P("id"), Str("g1"))>>))>>))>>)}

(***************************************************************************)
(* The calls of a caller.                                                  *)
(***************************************************************************)
\* the content of an instance: its elements by value
Deep(h, gr) ==
    [nodes |-> List([i \in 1..Len(gr.nodes) |-> h[gr.nodes[i]]]),
     edges |-> List([i \in 1..Len(gr.edges) |-> h[gr.edges[i]]]),
     nodeAttributes |-> gr.nodeAttributes,
     edgeAttributes |-> gr.edgeAttributes,
     graphAttributes |-> gr.graphAttributes]

\* what the last exporter returned: the document, the exporter, the instance
\* and the content the instance had when the exporter was called
NoOut == [doc |-> NoDocument, by |-> "", of |-> 0, was |-> Deep(<<>>, NoGraph)]

\* the document an importer is given: the caller's or the last exporter's
Source(src) == IF src = "doc" THEN doc ELSE out.doc

\* an importer returned r for the source src
Imported(op, src, r) ==
    /\ heap' = r.heap
    /\ given' = given
    /\ last' = [op |-> op, src |-> src, err |-> r.err]
    /\ IF r.err = NoError
       THEN /\ graphs' = Append(graphs,
                   [g |-> r.graph, by |-> op, src |-> src,
                    via |-> IF src = "doc" THEN "" ELSE out.by,
                    of |-> IF src = "doc" THEN 0 ELSE out.of,
                    was |-> IF src = "doc" THEN NoOut.was ELSE out.was])
            /\ snaps' = Append(snaps, Deep(r.heap, r.graph))
       ELSE UNCHANGED <<graphs, snaps>>

\* a JSON importer changes the document it is given
JsonImported(op, src, r) ==
    /\ Imported(op, src, r)
    /\ IF src = "doc"
       THEN doc' = r.doc /\ out' = out
       ELSE doc' = doc /\ out' = [out EXCEPT !.doc = r.doc]

FromJson ==
    \E src \in {"doc", "out"} :
        /\ Len(graphs) < MaxGraphs
        /\ Len(heap) <= MaxHeap
        /\ Source(src).kind = "json"
        /\ JsonImported("fromJson", src, fromJson(heap, Source(src)))

FromGraphology ==
    \E src \in {"doc", "out"} :
        /\ Len(graphs) < MaxGraphs
        /\ Len(heap) <= MaxHeap
        /\ Source(src).kind = "graphology"
        /\ JsonImported("fromGraphology", src, fromGraphology(heap, Source(src)))

FromGexf ==
    \E src \in {"doc", "out"} :
        /\ Len(graphs) < MaxGraphs
        /\ Len(heap) <= MaxHeap
        /\ Source(src).kind = "gexf"
        /\ Imported("fromGexf", src, fromGexf(heap, Source(src).tree))
        /\ UNCHANGED <<doc, out>>

FromGraphml ==
    \E src \in {"doc", "out"} :
        /\ Len(graphs) < MaxGraphs
        /\ Len(heap) <= MaxHeap
        /\ Source(src).kind = "graphml"
        /\ Imported("fromGraphml", src, fromGraphml(heap, Source(src).tree))
        /\ UNCHANGED <<doc, out>>

\* an exporter of the instance i returned r
Exported(op, i, r) ==
    /\ heap' = r.heap
    /\ out' = IF r.err = NoError
              THEN [doc |-> r.out, by |-> op, of |-> i, was |-> Deep(heap, graphs[i].g)]
              ELSE out
    /\ last' = [op |-> op, src |-> "", err |-> r.err]
    /\ UNCHANGED <<doc, graphs, snaps, given>>

ToJson == \E i \in 1..Len(graphs) : Exported("toJson", i, toJson(heap, graphs[i].g))
ToGraphology ==
    \E i \in 1..Len(graphs) : Exported("toGraphology", i, toGraphology(heap, graphs[i].g))
ToGexf == \E i \in 1..Len(graphs) : Exported("toGexf", i, toGexf(heap, graphs[i].g))
ToGraphml == \E i \in 1..Len(graphs) : Exported("toGraphml", i, toGraphml(heap, graphs[i].g))

Next ==
    \/ FromJson
    \/ FromGraphology
    \/ FromGexf
    \/ FromGraphml
    \/ ToJson
    \/ ToGraphology
    \/ ToGexf
    \/ ToGraphml

\* the state before the first call, for an input heap and document
Start(h, d) ==
    /\ heap = h
    /\ doc = d
    /\ graphs = <<>>
    /\ snaps = <<>>
    /\ out = NoOut
    /\ last = [op |-> "", src |-> "", err |-> NoError]
    /\ given = [heap |-> h, doc |-> d]

\* the caller holds a JSON document or a graphology serialization
InitJson ==
    \/ \E in \in JsonInputs : Start(JsonHeap(in), JsonDocument("json", in))
    \/ \E in \in GraphologyInputs :
           Start(GraphologyHeap(in), JsonDocument("graphology", in))

\* the caller holds a GEXF or a GraphML text
InitXml ==
    \/ \E tree \in GexfInputs : Start(<<>>, XmlDocument("gexf", tree))
    \/ \E tree \in GraphmlInputs : Start(<<>>, XmlDocument("graphml", tree))

\* the caller holds a document of plain elements in one of the four formats
InitPlain ==
    \/ \E in \in PlainJsonInputs : Start(JsonHeap(in), JsonDocument("json", in))
    \/ \E in \in PlainGraphologyInputs :
           Start(GraphologyHeap(in), JsonDocument("graphology", in))
    \/ \E tree \in PlainGexfInputs : Start(<<>>, XmlDocument("gexf", tree))
    \/ \E tree \in PlainGraphmlInputs : Start(<<>>, XmlDocument("graphml", tree))

SpecJson == InitJson /\ [][Next]_vars
SpecXml == InitXml /\ [][Next]_vars
SpecPlain == InitPlain /\ [][Next]_vars

\* the caller writes on an element of the document the last exporter
\* returned: element.label = "edited" (once)
Edit ==
    /\ out.doc.kind \in {"json", "graphology"}
    /\ \A q \in 1..Len(heap) : GetE(heap[q].o, "label") # Str("edited")
    /\ \E i \in 1..Len(out.doc.nodes \o out.doc.edges) :
           heap' = [heap EXCEPT ![(out.doc.nodes \o out.doc.edges)[i]] =
                        Obj(SetE(@.o, "label", Str("edited")))]
    /\ last' = [op |-> "edit", src |-> "out", err |-> NoError]
    /\ UNCHANGED <<doc, graphs, snaps, out, given>>

\* the calls of a caller that also writes on the documents it was returned
NextEdit ==
    \/ FromJson
    \/ FromGraphology
    \/ FromGexf
    \/ FromGraphml
    \/ ToJson
    \/ ToGraphology
    \/ ToGexf
    \/ ToGraphml
    \/ Edit

\* the caller holds a JSON document or a graphology serialization of plain
\* elements, with its nodes and its edges
InitEdit ==
    \/ \E in \in PlainJsonInputs :
           in.hasNodes /\ in.hasEdges /\ Start(JsonHeap(in), JsonDocument("json", in))
    \/ \E in \in PlainGraphologyInputs :
           in.hasNodes /\ in.hasEdges
               /\ Start(GraphologyHeap(in), JsonDocument("graphology", in))

SpecEdit == InitEdit /\ [][NextEdit]_vars

\* a JSON document whose second edge has no id, with graph attributes that
\* hold a name or with none
NamedGraphAttributes ==
    {Undef,
     Obj(<<E("name", Str("mine")), E("id", Str("g1")), E("edgeType", Str("directed"))>>)}
AnonymousEdgeHeap ==
    <<JsonNode(1, <<>>), JsonNode(2, <<>>), JsonEdge(1, <<>>),
      Obj(<<E("source", Str("n1")), E("target", Str("n2"))>>)>>

\* a GEXF document whose nodes and edges have a key attribute, the second
\* edge without an id
KeyedGexfTree ==
    GexfTree(BothGexfBlocks,
             <<GexfNode(1, <<E(P("key"), Str("k1"))>>), GexfNode(2, <<>>)>>,
             <<GexfEdge(1, <<E(P("key"), Str("k2"))>>),
               Obj(<<E(P("source"), Str("n1")), E(P("target"), Str("n2"))>>)>>,
             <<E(P("defaultedgetype"), Str("directed"))>>)

\* the caller holds a document with elements that have a key, or no id
InitKeys ==
    \/ \E ga \in NamedGraphAttributes :
           Start(AnonymousEdgeHeap,
                 Document("json", TRUE, <<1, 2>>, TRUE, <<3, 4>>, ga, Undef))
    \/ Start(<<>>, XmlDocument("gexf", KeyedGexfTree))

SpecKeys == InitKeys /\ [][Next]_vars

(***************************************************************************)
(* Properties.  An instance is read through snaps: its content when its    *)
(* importer returned it.                                                   *)
(***************************************************************************)
\* the entries of an object as a map: the set of its key-value pairs
Pairs(es) == {<<es[i].k, es[i].val>> : i \in 1..Len(es)}

\* a color as its canonical rgb string
Canonical(key, value) ==
    IF key = "color" /\ value.t # "undefined" THEN toRgbString(tinycolor2(value)) ELSE value

\* an element as its fields (the color canonical) and its attributes map
Fields(e) ==
    {<<e.o[i].k, Canonical(e.o[i].k, e.o[i].val)>> :
        i \in {n \in 1..Len(e.o) : e.o[n].k # "attributes"}}
AttributePairs(e) == Pairs(GetE(e.o, "attributes").o)
SameElements(as, bs) ==
    /\ Len(as) = Len(bs)
    /\ \A i \in 1..Len(as) :
        /\ GetE(as[i].o, "id") = GetE(bs[i].o, "id")
        /\ Fields(as[i]) = Fields(bs[i])
        /\ AttributePairs(as[i]) = AttributePairs(bs[i])

\* the instance j was imported by importer from what exporter made of an
\* instance as importer had returned it
IsRoundTrip(j, importer, exporter) ==
    /\ graphs[j].by = importer
    /\ graphs[j].src = "out"
    /\ graphs[j].via = exporter
    /\ graphs[graphs[j].of].by = importer
    /\ graphs[j].was = snaps[graphs[j].of]

\* the last call was importer, on what exporter made of an instance as
\* importer had returned it
IsReimport(importer, exporter) ==
    /\ last.op = importer
    /\ last.src = "out"
    /\ out.by = exporter
    /\ graphs[out.of].by = importer
    /\ out.was = snaps[out.of]

SameFormat ==
    {<<"fromJson", "toJson">>, <<"fromGexf", "toGexf">>, <<"fromGraphml", "toGraphml">>}

\* the elements of the caller's document as they were before the first call
GivenNodes == List([i \in 1..Len(given.doc.nodes) |-> given.heap[given.doc.nodes[i]]])
GivenEdges == List([i \in 1..Len(given.doc.edges) |-> given.heap[given.doc.edges[i]]])

\* C1: a graph imported from a document of a format, exported to that format
\* and imported again, is imported without an error and has the same number
\* of nodes and edges, the same ids and the same key-value pairs on every
\* element, colors compared as canonical rgb strings.
C1_SameFormatRoundTrip ==
    \A p \in SameFormat :
        /\ IsReimport(p[1], p[2]) => last.err = NoError
        /\ \A j \in 1..Len(graphs) :
            IsRoundTrip(j, p[1], p[2]) =>
                /\ SameElements(snaps[graphs[j].of].nodes, snaps[j].nodes)
                /\ SameElements(snaps[graphs[j].of].edges, snaps[j].edges)

\* the element of the list with the id, if any
WithId(elements, id) ==
    {elements[i] : i \in {n \in 1..Len(elements) : GetE(elements[n].o, "id") = id}}
Ids(elements) == {GetE(elements[i].o, "id") : i \in 1..Len(elements)}

ReservedFields == {"label", "size", "shape", "x", "y", "z", "weight", "color"}

\* the element b has the reserved fields of a and the attributes of a, up to
\* the coercion of a number to its text
Carries(a, b) ==
    /\ \A f \in ReservedFields :
        Canonical(f, GetE(a.o, f)) = Canonical(f, GetE(b.o, f))
    /\ \A i \in 1..Len(GetE(a.o, "attributes").o) :
        LET entry == GetE(a.o, "attributes").o[i]
        IN  Template(GetE(GetE(b.o, "attributes").o, entry.k)) = Template(entry.val)
CarriesAll(as, bs) ==
    /\ Ids(as) = Ids(bs)
    /\ \A i \in 1..Len(as) : \A b \in WithId(bs, GetE(as[i].o, "id")) : Carries(as[i], b)

\* the first instance is what fromJson returned for the caller's document
IsFromJsonOfGiven ==
    Len(graphs) >= 1 /\ graphs[1].by = "fromJson" /\ graphs[1].src = "doc"

\* the last call ended the trip of the caller's JSON document through GEXF
IsCrossFormatTrip ==
    /\ last.op = "toJson"
    /\ last.err = NoError
    /\ Len(graphs) = 2
    /\ out.of = 2
    /\ graphs[1].by = "fromJson" /\ graphs[1].src = "doc"
    /\ graphs[2].by = "fromGexf" /\ graphs[2].via = "toGexf" /\ graphs[2].of = 1
    /\ graphs[2].was = snaps[1]
    /\ out.was = snaps[2]

\* C2: a JSON document imported, exported to GEXF, imported from it and
\* exported to JSON comes back with the nodes and edges it had (by id), each
\* with the reserved field values and the attribute values it had, up to the
\* coercion between a number and its text; the GEXF text is imported without
\* an error.
C2_CrossFormatRoundTrip ==
    /\ (last.op = "fromGexf" /\ last.src = "out" /\ out.by = "toGexf"
        /\ out.of = 1 /\ IsFromJsonOfGiven /\ out.was = snaps[1])
            => last.err = NoError
    /\ IsCrossFormatTrip =>
        /\ CarriesAll(GivenNodes, List([i \in 1..Len(out.doc.nodes) |-> heap[out.doc.nodes[i]]]))
        /\ CarriesAll(GivenEdges, List([i \in 1..Len(out.doc.edges) |-> heap[out.doc.edges[i]]]))

\* C3: g2 = fromJson(g1.toJson()) for g1 = fromJson(d) equals g1 as it was
\* before the export: the nodes, the edges, the node-attribute schema, the
\* edge-attribute schema and the graph attributes.
C3_ReservedKeyIdempotence ==
    \A j \in 1..Len(graphs) :
        (IsRoundTrip(j, "fromJson", "toJson") /\ graphs[graphs[j].of].src = "doc")
            => snaps[j] = snaps[graphs[j].of]

\* the keys fromJson observes on an element, in its order: the entries of
\* the attributes map, then the fields of the element other than attributes,
\* color, id, source and target
Observed(e) ==
    GetE(e.o, "attributes").o
        \o SelectSeq(e.o, LAMBDA x : x.k \notin {"attributes", "color", "id", "source", "target"})
RECURSIVE ObservedIn(_, _)
ObservedIn(elements, i) ==
    IF i > Len(elements) THEN <<>> ELSE Observed(elements[i]) \o ObservedIn(elements, i + 1)

\* the runtime types observed of a key, in the order of their observation
TypesOf(obs, key) ==
    LET mine == SelectSeq(obs, LAMBDA x : x.k = key)
    IN  List([i \in 1..Len(mine) |-> TypeOf(mine[i].val)])
Count(types, ty) == Cardinality({i \in 1..Len(types) : types[i] = ty})
First(types, ty) == CHOOSE i \in 1..Len(types) : types[i] = ty /\ \A j \in 1..(i - 1) : types[j] # ty
Range(seq) == {seq[i] : i \in 1..Len(seq)}

\* ty has the highest count, and was observed first among those that have it
Wins(types, ty) ==
    /\ ty \in Range(types)
    /\ \A other \in Range(types) :
        \/ Count(types, ty) > Count(types, other)
        \/ Count(types, ty) = Count(types, other) /\ First(types, ty) <= First(types, other)

\* the schema has one descriptor for each observed key, with its winning type
Infers(schema, obs) ==
    /\ {schema[i].id : i \in 1..Len(schema)} = {Str(obs[i].k) : i \in 1..Len(obs)}
    /\ \A i \in 1..Len(schema) :
        /\ schema[i].title = schema[i].id
        /\ Wins(TypesOf(obs, schema[i].id.v), schema[i].type)

\* C4: the schema fromJson infers has, for every key observed in the nodes
\* (resp. edges), a descriptor whose id and title are the key and whose type
\* is the runtime type observed most often for the key, the first observed
\* of them when several types have the highest count.
C4_TypeInference ==
    IsFromJsonOfGiven =>
        /\ Infers(snaps[1].nodeAttributes, ObservedIn(GivenNodes, 1))
        /\ Infers(snaps[1].edgeAttributes, ObservedIn(GivenEdges, 1))

\* a key of the nodes was observed with two types the same number of times
C4_TieObserved ==
    /\ IsFromJsonOfGiven
    /\ \E i \in 1..Len(snaps[1].nodeAttributes) :
        LET types == TypesOf(ObservedIn(GivenNodes, 1), snaps[1].nodeAttributes[i].id.v)
        IN  \E a \in Range(types) : \E b \in Range(types) :
                a # b /\ Count(types, a) = Count(types, b)

\* the key declarations of a GraphML text, as the builder was given them
DeclaredKeys(tree) == Items(GetE(GetE(tree.o, "graphml").o, "key"))
Declares(tree, role, id) ==
    \E i \in 1..Len(DeclaredKeys(tree)) :
        /\ GetE(DeclaredKeys(tree)[i].o, P("for")) = Str(role)
        /\ GetE(DeclaredKeys(tree)[i].o, P("id")) = Str(id)
DeclaresAs(tree, role, id, type) ==
    \E i \in 1..Len(DeclaredKeys(tree)) :
        /\ GetE(DeclaredKeys(tree)[i].o, P("for")) = Str(role)
        /\ GetE(DeclaredKeys(tree)[i].o, P("id")) = Str(id)
        /\ GetE(DeclaredKeys(tree)[i].o, P("attr.type")) = Str(type)

SynthesizedType ==
    [x |-> "float", y |-> "float", z |-> "float", size |-> "float", weight |-> "float",
     thickness |-> "float", label |-> "string", shape |-> "string", edgelabel |-> "string"]
NodeReserved == {"x", "y", "z", "size", "shape", "label"}
EdgeReserved == NodeReserved \cup {"weight", "thickness", "edgelabel"}

SomeCarries(refs, field) == \E i \in 1..Len(refs) : GetE(heap[refs[i]].o, field).t # "undefined"
HasDescriptor(schema, id) == \E i \in 1..Len(schema) : schema[i].id = Str(id)

\* the keys of one role are complete in the text
RoleComplete(tree, role, refs, schema, reserved) ==
    /\ \A f \in reserved :
        (SomeCarries(refs, f) /\ ~HasDescriptor(schema, f))
            => DeclaresAs(tree, role, f, SynthesizedType[f])
    /\ SomeCarries(refs, "color") =>
        \A c \in {"r", "g", "b"} :
            /\ Declares(tree, role, c)
            /\ ~HasDescriptor(schema, c) => DeclaresAs(tree, role, c, "int")

\* C5: the text toGraphml returns declares, for each role, a key for every
\* reserved field that an element of the role carries and the schema of the
\* role does not describe (float for x, y, z, size, weight, thickness, string
\* for label, shape, edgelabel), and the keys r, g and b (int when the schema
\* does not describe them) whenever an element of the role carries a color.
C5_SynthesizedKeys ==
    (last.op = "toGraphml" /\ last.err = NoError) =>
        LET gr == graphs[out.of].g
        IN  /\ RoleComplete(out.doc.tree, "node", gr.nodes, gr.nodeAttributes, NodeReserved)
            /\ RoleComplete(out.doc.tree, "edge", gr.edges, gr.edgeAttributes, EdgeReserved)

\* the graph tag of the text of an XML exporter
GraphTag(tree, root) == GetE(GetE(tree.o, root).o, "graph").o
EdgeTypeOf(i) == GetE(graphs[i].g.graphAttributes.o, "edgeType")
EdgeTypes == {Str("directed"), Str("undirected"), Str("mutual")}

\* C6: for an instance whose edgeType is mutual, toGraphml writes
\* edgedefault="directed" and toGexf writes defaultedgetype="mutual"; for
\* directed and undirected both write the edgeType as it is.
C6_EdgeTypeExport ==
    /\ (out.by = "toGraphml" /\ EdgeTypeOf(out.of) \in EdgeTypes) =>
        GetE(GraphTag(out.doc.tree, "graphml"), P("edgedefault"))
            = IF EdgeTypeOf(out.of) = Str("mutual") THEN Str("directed") ELSE EdgeTypeOf(out.of)
    /\ (out.by = "toGexf" /\ EdgeTypeOf(out.of) \in EdgeTypes) =>
        GetE(GraphTag(out.doc.tree, "gexf"), P("defaultedgetype")) = EdgeTypeOf(out.of)

\* toGraphml exported an instance whose edgeType is mutual
C6_MutualExported ==
    out.by = "toGraphml" /\ EdgeTypeOf(out.of) = Str("mutual")

\* the value of an XML attribute of a tag, or the default when it is absent
OrDefault(tag, name, default) ==
    IF GetE(tag, P(name)).t = "undefined" THEN Str(default) ELSE GetE(tag, P(name))

\* the graph attributes of the instance j
GraphAttribute(j, key) == GetE(snaps[j].graphAttributes.o, key)

\* C7: after fromGexf, the id of the graph is the id attribute of the graph
\* tag ("graph" when absent), its edgeType the defaultedgetype attribute
\* ("undirected" when absent) and its mode the mode attribute ("static" when
\* absent).
C7_GexfGraphAttributes ==
    \A j \in 1..Len(graphs) :
        (graphs[j].by = "fromGexf" /\ graphs[j].src = "doc") =>
            LET tag == GraphTag(given.doc.tree, "gexf")
            IN  /\ GraphAttribute(j, "id") = OrDefault(tag, "id", "graph")
                /\ GraphAttribute(j, "edgeType") = OrDefault(tag, "defaultedgetype", "undirected")
                /\ GraphAttribute(j, "mode") = OrDefault(tag, "mode", "static")

\* the graph attributes the claim calls the defaults
Defaults ==
    {<<"id", Str("graph")>>, <<"edgeType", Str("undirected")>>, <<"mode", Str("static")>>}
DefaultOf(key) == (CHOOSE p \in Defaults : p[1] = key)[2]

\* the caller's document gives no graph-level attribute
GivesNone ==
    CASE given.doc.kind \in {"json", "graphology"} -> given.doc.attributes = Undef
      [] given.doc.kind = "gexf" ->
            \A name \in {"id", "mode", "defaultedgetype"} :
                GetE(GraphTag(given.doc.tree, "gexf"), P(name)).t = "undefined"
      [] given.doc.kind = "graphml" ->
            \A name \in {"id", "edgedefault"} :
                GetE(GraphTag(given.doc.tree, "graphml"), P(name)).t = "undefined"
      [] OTHER -> FALSE

\* C8: an importer given a document without graph-level attributes returns a
\* graph whose attributes are exactly id "graph", edgeType "undirected" and
\* mode "static"; fromJson given some of them keeps the given ones and gives
\* each missing one its default.
C8_DefaultGraphAttributes ==
    \A j \in 1..Len(graphs) :
        graphs[j].src = "doc" =>
            /\ GivesNone => Pairs(snaps[j].graphAttributes.o) = Defaults
            /\ (graphs[j].by = "fromJson" /\ given.doc.attributes # Undef) =>
                \A key \in {"id", "edgeType", "mode"} :
                    GraphAttribute(j, key) =
                        IF HasKey(given.doc.attributes.o, key)
                        THEN GetE(given.doc.attributes.o, key)
                        ELSE DefaultOf(key)

\* fromJson returned a graph for a document that gives only the edgeType
C8_PartialGiven ==
    /\ Len(graphs) >= 1
    /\ graphs[1].by = "fromJson" /\ graphs[1].src = "doc"
    /\ given.doc.attributes # Undef
    /\ HasKey(given.doc.attributes.o, "edgeType")
    /\ ~HasKey(given.doc.attributes.o, "id")

XmlImporters == {"fromGexf", "fromGraphml"}
ParsePrefix == "An error occurred while trying to parse the XML string"
IsParseError(err) == err.name = "Error" /\ Len(err.message) >= 1 /\ err.message[1] = ParsePrefix

\* the text the call of the step was given
TextOfStep == IF last'.src = "doc" THEN doc.tree ELSE out.doc.tree

\* the text has the containers the importers read
HasContainers(tree, root, children) ==
    /\ GetE(tree.o, root).t = "object"
    /\ GetE(GetE(tree.o, root).o, "graph").t = "object"
    /\ \A c \in children : GetE(GraphTag(tree, root), c).t # "undefined"

\* C9: a call of fromGexf or fromGraphml on a text the parser raises on
\* raises an error whose message starts with the parse prefix; on a text the
\* parser reads, it raises nothing but the fixed malformed error, and raises
\* it when the tree lacks a container; a call that raises returns no graph.
C9_TwoTierErrors ==
    [][last'.op \in XmlImporters =>
        /\ IsThrow(TextOfStep) => IsParseError(last'.err)
        /\ ~IsThrow(TextOfStep) => last'.err \in {NoError, MalformedError}
        /\ (~IsThrow(TextOfStep) /\ last'.op = "fromGexf"
            /\ ~HasContainers(TextOfStep, "gexf", {"nodes", "edges"}))
                => last'.err = MalformedError
        /\ (~IsThrow(TextOfStep) /\ last'.op = "fromGraphml"
            /\ ~HasContainers(TextOfStep, "graphml", {"node", "edge"}))
                => last'.err = MalformedError
        /\ last'.err # NoError => graphs' = graphs /\ snaps' = snaps]_vars

\* an XML importer raised the malformed error on a text the parser reads
C9_MalformedRaised ==
    /\ last.op \in XmlImporters
    /\ last.err = MalformedError
    /\ ~IsThrow(Source(last.src).tree)

Importers == {"fromJson", "fromGraphology", "fromGexf", "fromGraphml"}

\* C10: an importer call that fails raises the parse error or the malformed
\* error, also fromJson and fromGraphology on a document without nodes or
\* without edges.
C10_TwoErrorKinds ==
    (last.op \in Importers /\ last.err # NoError) =>
        \/ IsParseError(last.err)
        \/ last.err = MalformedError

Exporters == {"toJson", "toGraphology", "toGexf", "toGraphml"}

\* two contents hold the same nodes and edges: on every element the same
\* fields (a color as its canonical rgb string) and the same attributes map
SameModel(a, b) == SameElements(a.nodes, b.nodes) /\ SameElements(a.edges, b.edges)

\* the last call was an exporter that returned
HasExported == last.op \in Exporters /\ last.err = NoError

\* C11: an exporter does not change the instance it exports: after the call
\* every node and edge of the instance has the same top-level fields and the
\* same attributes map as before the call, except for the representation of
\* its color.
C11_ExportersKeepModel ==
    HasExported => SameModel(out.was, Deep(heap, graphs[out.of].g))

JsonImporters == {"fromJson", "fromGraphology"}

\* the last call was the importer op on the caller's document, it returned
\* and no exporter was called before
IsFirstImport(op) ==
    /\ last.op = op
    /\ last.src = "doc"
    /\ last.err = NoError
    /\ out = NoOut

\* the nodes and edges of a document on a heap, by value
DocNodes(h, d) == List([i \in 1..Len(d.nodes) |-> h[d.nodes[i]]])
DocEdges(h, d) == List([i \in 1..Len(d.edges) |-> h[d.edges[i]]])

\* C12: fromJson and fromGraphology leave the caller's document as it was
\* given (the same nodes and edges, on every element the same fields with the
\* same values), and importing the same document object a second time
\* returns a graph equal to the first.
C12_ImportersKeepInput ==
    \A op \in JsonImporters :
        IsFirstImport(op) =>
            /\ SameElements(DocNodes(heap, doc), GivenNodes)
            /\ SameElements(DocEdges(heap, doc), GivenEdges)
            /\ doc.attributes = given.doc.attributes
            /\ \A i, j \in 1..Len(graphs) :
                   graphs[i].by = op /\ graphs[j].by = op => snaps[i] = snaps[j]

\* the last call wrote on the document the last exporter returned: the
\* caller's write, or fromJson on that document
WroteOnExported ==
    \/ last.op = "edit"
    \/ last.op = "fromJson" /\ last.src = "out"

\* C13: a document returned by toJson or toGraphology is independent of the
\* instance: when the caller changes a field of one of its nodes or edges, or
\* imports it again with fromJson, the nodes and edges of the instance stay
\* as they were.
C13_ExportedDocumentsIndependent ==
    [][WroteOnExported' =>
          SameModel(Deep(heap, graphs[out.of].g), Deep(heap', graphs[out.of].g))]_vars

\* C14: every conversion completes: on an instance an importer returned,
\* toJson, toGexf and toGraphml return without raising, whatever values the
\* fields of the elements hold.
C14_ConversionsComplete ==
    last.op \in {"toJson", "toGexf", "toGraphml"} => last.err = NoError

\* the reserved field names of an element
ReservedNames ==
    {"color", "label", "edgelabel", "size", "weight", "shape", "thickness",
     "x", "y", "z", "key", "undirected"}

\* no reserved name is both a top-level field and an entry of the attributes
\* map of the element
ReservedOnce(e) ==
    \A f \in ReservedNames : ~(HasKey(e.o, f) /\ HasKey(GetE(e.o, "attributes").o, f))
AllReservedOnce(content) ==
    /\ \A i \in 1..Len(content.nodes) : ReservedOnce(content.nodes[i])
    /\ \A i \in 1..Len(content.edges) : ReservedOnce(content.edges[i])

\* C15: in every instance as its importer returned it, and in the instance an
\* exporter was just called on, no node or edge has a reserved field name
\* both as a top-level field and as an entry of its attributes map.
C15_ReservedFieldInvariant ==
    /\ \A j \in 1..Len(snaps) : AllReservedOnce(snaps[j])
    /\ HasExported => AllReservedOnce(Deep(heap, graphs[out.of].g))

\* the types a descriptor may have
AttributeTypes == {"string", "boolean", "number"}

\* the descriptors of the two schemas of a content
Descriptors(content) == Range(content.nodeAttributes) \cup Range(content.edgeAttributes)

\* C16: after any importer, every descriptor of the node-attribute schema and
\* of the edge-attribute schema has a type among string, boolean and number,
\* also when the schema was inferred from an element with a missing field
\* value.
C16_DescriptorTypesClosed ==
    \A j \in 1..Len(snaps) : \A d \in Descriptors(snaps[j]) : d.type \in AttributeTypes

\* the descriptors of a schema have ids that differ from each other
UniqueIds(schema) ==
    \A i, j \in 1..Len(schema) : schema[i].id = schema[j].id => i = j

\* C17: after any importer, no two descriptors of the node-attribute schema
\* share an id and no two descriptors of the edge-attribute schema share an
\* id.
C17_DescriptorIdsUnique ==
    \A j \in 1..Len(snaps) :
        UniqueIds(snaps[j].nodeAttributes) /\ UniqueIds(snaps[j].edgeAttributes)

\* x when it is set, else y
Else(x, y) == IF x.t # "undefined" THEN x ELSE y

\* the key toGraphology gives an element that was b before the call
KeyOf(b) == Else(GetE(b.o, "key"), GetE(b.o, "id"))

\* the node a of the output, which was b before the call, has its key
NodeKeyed(a, b) == GetE(a.o, "key") = KeyOf(b)

\* the edge a of the output, which was b before the call, has its key (none
\* when b has neither key nor id) and its undirected
EdgeKeyed(a, b, edgeType) ==
    /\ IF KeyOf(b).t = "undefined" THEN ~HasKey(a.o, "key") ELSE GetE(a.o, "key") = KeyOf(b)
    /\ GetE(a.o, "undirected") = Bool(IF edgeType = Str("undirected") THEN "true" ELSE "false")

ToGraphologyReturned == last.op = "toGraphology" /\ last.err = NoError

\* C18: in the output of toGraphology the graph-level attributes hold name,
\* equal to the graph id unless the graph attributes already hold a name;
\* every node has key equal to its existing key, else its id; every edge has
\* key equal to its existing key, else its id, and no key when it has
\* neither; every edge has undirected equal to (edgeType = "undirected").
C18_ToGraphologyOutput ==
    ToGraphologyReturned =>
        /\ GetE(out.doc.attributes.o, "name")
               = Else(GetE(out.was.graphAttributes.o, "name"),
                      GetE(out.was.graphAttributes.o, "id"))
        /\ Len(out.doc.nodes) = Len(out.was.nodes)
        /\ Len(out.doc.edges) = Len(out.was.edges)
        /\ \A i \in 1..Len(out.doc.nodes) :
               NodeKeyed(heap[out.doc.nodes[i]], out.was.nodes[i])
        /\ \A i \in 1..Len(out.doc.edges) :
               EdgeKeyed(heap[out.doc.edges[i]], out.was.edges[i],
                         GetE(out.was.graphAttributes.o, "edgeType"))

\* toGraphology returned for a graph whose attributes hold a name that is
\* not its id, with an edge that has a key and an edge that has neither key
\* nor id
C18_NamedAndAnonymous ==
    /\ ToGraphologyReturned
    /\ GetE(out.was.graphAttributes.o, "name") = Str("mine")
    /\ GetE(out.doc.attributes.o, "name") = Str("mine")
    /\ \E i \in 1..Len(out.doc.edges) : ~HasKey(heap[out.doc.edges[i]].o, "key")
    /\ \E i \in 1..Len(out.doc.edges) : GetE(heap[out.doc.edges[i]].o, "key") = Str("e1")
    /\ \A i \in 1..Len(out.doc.edges) :
           GetE(heap[out.doc.edges[i]].o, "undirected") = Bool("false")

\* the keys of the attributes maps of the elements
AttributeKeys(elements) ==
    UNION {{Str(k) : k \in Range(Keys(GetE(elements[i].o, "attributes").o))} :
               i \in 1..Len(elements)}

\* every descriptor of the schema has the id of a key of the attributes map
\* of one of the elements
OnlyAttributeKeys(schema, elements) ==
    \A d \in Range(schema) : d.id \in AttributeKeys(elements)

\* C20: after fromJson or fromGraphology the top-level reserved fields of
\* the elements produce no descriptor: the node (resp. edge) schema holds a
\* descriptor with id k only if k is a key of the attributes map of a node
\* (resp. edge) of the graph.
C20_ReservedBypassInference ==
    \A j \in 1..Len(snaps) :
        graphs[j].by \in JsonImporters =>
            /\ OnlyAttributeKeys(snaps[j].nodeAttributes, snaps[j].nodes)
            /\ OnlyAttributeKeys(snaps[j].edgeAttributes, snaps[j].edges)

\* the reserved table of element fields
ReservedTable ==
    {"id", "source", "target", "color", "label", "edgelabel", "size", "weight",
     "shape", "thickness", "x", "y", "z", "key", "undirected"}

\* the top-level fields of the source element a are split in the element b:
\* a field of the table stays where it is with its value (the color as its
\* canonical string), any other field is an entry of the attributes map, with
\* its value
SplitByTable(a, b, renamed) ==
    \A k \in Range(Keys(a.o)) \ ({"attributes"} \cup renamed) :
        /\ GetE(GetE(b.o, "attributes").o, k) = GetE(a.o, k) <=> k \notin ReservedTable
        /\ k \in ReservedTable =>
               Canonical(k, GetE(b.o, k)) = Canonical(k, GetE(a.o, k))

\* C21: after fromJson, a top-level field of a source element is in the
\* element's attributes map if and only if its name is not in the reserved
\* table; every field of the table the source element carries (thickness,
\* key and undirected included) stays a top-level field with its value.  The
\* size of an edge, which the importer renames, is left out.
C21_ReservedKeySplit ==
    IsFromJsonOfGiven =>
        /\ \A i \in 1..Len(GivenNodes) :
               SplitByTable(GivenNodes[i], snaps[1].nodes[i], {})
        /\ \A i \in 1..Len(GivenEdges) :
               SplitByTable(GivenEdges[i], snaps[1].edges[i], {"size"})

\* the edge elements of the caller's XML document, as the tree holds them
GivenGexfEdges == Items(Prop(Prop(Prop(Prop(given.doc.tree, "gexf"), "graph"), "edges"), "edge"))
GivenGraphmlEdges == Items(Prop(Prop(Prop(given.doc.tree, "graphml"), "graph"), "edge"))

\* the size a source edge carries: its JSON size, its graphology size
\* attribute, its viz:size or its size data
JsonSize(e) == GetE(e.o, "size")
GraphologySize(e) == GetE(GetE(e.o, "attributes").o, "size")
GexfSize(e) ==
    IF HasKey(e.o, "viz:size") THEN Prop(GetE(e.o, "viz:size"), P("value")) ELSE Undef
GraphmlSize(e) ==
    LET sizes == SelectSeq(Items(GetE(e.o, "data")),
                           LAMBDA d : Prop(d, P("key")) = Str("size"))
    IN  IF sizes = <<>> THEN Undef ELSE Prop(sizes[1], "#text")

\* the first instance was imported by op from the caller's document
IsImportOfGiven(op) ==
    Len(graphs) >= 1 /\ graphs[1].by = op /\ graphs[1].src = "doc"

\* the size of the source edge, if it has one, is the weight of the edge
SizeIsWeight(size, edge) ==
    size.t # "undefined" => GetE(edge.o, "weight") = size

\* C22: after any importer no edge of the graph has a top-level size, and a
\* source edge that carries a size s (JSON size, GEXF viz:size, GraphML size
\* data) has the weight s in the graph.
C22_EdgeSizeIsWeight ==
    /\ \A j \in 1..Len(snaps) : \A i \in 1..Len(snaps[j].edges) :
           ~HasKey(snaps[j].edges[i].o, "size")
    /\ IsImportOfGiven("fromJson") =>
           \A i \in 1..Len(GivenEdges) :
               SizeIsWeight(JsonSize(GivenEdges[i]), snaps[1].edges[i])
    /\ IsImportOfGiven("fromGraphology") =>
           \A i \in 1..Len(GivenEdges) :
               SizeIsWeight(GraphologySize(GivenEdges[i]), snaps[1].edges[i])
    /\ IsImportOfGiven("fromGexf") =>
           \A i \in 1..Len(GivenGexfEdges) :
               SizeIsWeight(GexfSize(GivenGexfEdges[i]), snaps[1].edges[i])
    /\ IsImportOfGiven("fromGraphml") =>
           \A i \in 1..Len(GivenGraphmlEdges) :
               SizeIsWeight(GraphmlSize(GivenGraphmlEdges[i]), snaps[1].edges[i])

\* the node elements of the caller's GEXF document, as the tree holds them
GivenGexfNodes == Items(Prop(Prop(Prop(Prop(given.doc.tree, "gexf"), "graph"), "nodes"), "node"))

\* the value of a viz element of a GEXF element, if it has one
VizValue(e, tag) ==
    IF HasKey(e.o, tag) THEN Prop(GetE(e.o, tag), P("value")) ELSE Undef

\* the element b imported from the GEXF element a has the size, the shape
\* and the thickness of a, each from its own viz element
VizFields(a, b) ==
    /\ GetE(b.o, "size") = VizValue(a, "viz:size")
    /\ GetE(b.o, "shape") = VizValue(a, "viz:shape")
    /\ GetE(b.o, "thickness") = VizValue(a, "viz:thickness")

\* C23: for every GEXF element, fromGexf sets the size of the element to the
\* value of viz:size, its shape to the value of viz:shape and its thickness
\* to the value of viz:thickness, each field from its own viz element; an
\* element without viz:size has no size.
C23_GexfVisualFields ==
    IsImportOfGiven("fromGexf") =>
        /\ \A i \in 1..Len(GivenGexfNodes) : VizFields(GivenGexfNodes[i], snaps[1].nodes[i])
        /\ \A i \in 1..Len(GivenGexfEdges) : VizFields(GivenGexfEdges[i], snaps[1].edges[i])

\* the node elements of the caller's GraphML document, as the tree holds them
GivenGraphmlNodes == Items(Prop(Prop(Prop(given.doc.tree, "graphml"), "graph"), "node"))

\* the fields fromGraphml promotes from the data entries of an element
GraphmlReserved ==
    {"x", "y", "z", "size", "shape", "thickness", "weight", "label", "edgelabel",
     "start", "end"}

\* the text of the last data entry of the GraphML element with the key, if any
DataOf(e, key) ==
    LET entries == SelectSeq(AsArray(GetE(e.o, "data")),
                             LAMBDA d : d.t = "object" /\ Prop(d, P("key")) = Str(key))
    IN  IF entries = <<>> THEN Undef ELSE Prop(entries[Len(entries)], "#text")

\* every reserved data entry of the GraphML element a is a top-level field of
\* the element b, with its value, and no entry of the attributes map of b
PromotedData(a, b) ==
    \A f \in GraphmlReserved :
        DataOf(a, f).t # "undefined" =>
            /\ GetE(b.o, f) = DataOf(a, f)
            /\ ~HasKey(GetE(b.o, "attributes").o, f)

\* C24: for every GraphML element and every field f among x, y, z, size,
\* shape, thickness, weight, label, edgelabel, start, end for which the
\* element has a data entry with key f, whatever its value (0, the empty
\* string, false; z with or without x), after fromGraphml the element has
\* the top-level field f with that value and no entry f in its attributes.
C24_GraphmlPromotion ==
    IsImportOfGiven("fromGraphml") =>
        /\ \A i \in 1..Len(GivenGraphmlNodes) :
               PromotedData(GivenGraphmlNodes[i], snaps[1].nodes[i])
        /\ \A i \in 1..Len(GivenGraphmlEdges) :
               PromotedData(GivenGraphmlEdges[i], snaps[1].edges[i])

\* no descriptor of the schema has the id of a structural field
NoStructuralKey(schema) == \A d \in Range(schema) : d.id \notin StructuralIds

\* C25: after fromGraphml neither the node-attribute schema nor the
\* edge-attribute schema holds a descriptor whose id is "id", "source" or
\* "target", even when the document declares a key with such an id.
C25_StructuralKeysDropped ==
    \A j \in 1..Len(snaps) :
        graphs[j].by = "fromGraphml" =>
            /\ NoStructuralKey(snaps[j].nodeAttributes)
            /\ NoStructuralKey(snaps[j].edgeAttributes)

\* the texts of the model that hold an "&" that is not the start of "&amp;"
UnescapedTexts == {"a&b"}

\* the string values of a tree that hold an unescaped "&"
RECURSIVE Unescaped(_)
Unescaped(x) ==
    CASE x.t = "string" -> IF x.v \in UnescapedTexts THEN {x.v} ELSE {}
      [] x.t \in {"object", "array"} ->
            UNION {Unescaped(x.o[i].val) : i \in 1..Len(x.o)}
      [] OTHER -> {}

\* the node and edge elements of the tree an XML exporter handed to the builder
ExportedElements ==
    IF out.by = "toGexf"
    THEN Items(Prop(Prop(Prop(Prop(out.doc.tree, "gexf"), "graph"), "nodes"), "node"))
         \o Items(Prop(Prop(Prop(Prop(out.doc.tree, "gexf"), "graph"), "edges"), "edge"))
    ELSE Items(Prop(Prop(Prop(out.doc.tree, "graphml"), "graph"), "node"))
         \o Items(Prop(Prop(Prop(out.doc.tree, "graphml"), "graph"), "edge"))

\* C26: in the trees toGexf and toGraphml hand to the XML builder, every
\* string value taken from an element, the entries of its attributes map and
\* its other text fields emitted by the default branch (such as label), has
\* every "&" replaced by "&amp;".
C26_AmpersandEscaped ==
    out.by \in {"toGexf", "toGraphml"} =>
        \A i \in 1..Len(ExportedElements) : Unescaped(ExportedElements[i]) = {}

\* C27: the XML text an instance exports is imported again without an error:
\* for any graph g an importer returned (with one node, one edge, no edges or
\* an empty schema as well), fromGexf(g.toGexf()) and
\* fromGraphml(g.toGraphml()) return a graph, with a parser that returns a
\* single child as an object and leaves out a child that does not occur.
C27_OwnOutputReimportable ==
    (last.op \in XmlImporters /\ last.src = "out") => last.err = NoError

\* the elements bs have the ids of the elements as, in the same order, and
\* on every element the same reserved fields (the color as its canonical
\* string) and the same attributes map
SameReserved(as, bs) ==
    /\ Len(as) = Len(bs)
    /\ \A i \in 1..Len(as) :
        /\ GetE(as[i].o, "id") = GetE(bs[i].o, "id")
        /\ \A f \in ReservedFields :
               Canonical(f, GetE(as[i].o, f)) = Canonical(f, GetE(bs[i].o, f))
        /\ AttributePairs(as[i]) = AttributePairs(bs[i])

\* C28: for any Graphology document d, the graph
\* fromGraphology(fromGraphology(d).toGraphology()) has the nodes and edges
\* of fromGraphology(d): the same ids and, on every element, the same
\* reserved top-level fields (label, x, y, z, size, weight, shape, color as
\* canonical string) and the same attributes map.
C28_GraphologyRoundTrip ==
    \A j \in 1..Len(graphs) :
        IsRoundTrip(j, "fromGraphology", "toGraphology") =>
            /\ SameReserved(snaps[graphs[j].of].nodes, snaps[j].nodes)
            /\ SameReserved(snaps[graphs[j].of].edges, snaps[j].edges)

\* the node or edge elements of a GraphML text, as the builder was given them
GraphmlElements(tree, tag) == Items(GetE(GraphTag(tree, "graphml"), tag))

\* the keys of the data entries of a GraphML element
DataKeys(e) == {GetE(d.o, P("key")) : d \in Range(Items(GetE(e.o, "data")))}

\* every data entry of the elements of the role has a key declaration
AllDeclared(tree, role) ==
    \A e \in Range(GraphmlElements(tree, role)) :
        \A key \in DataKeys(e) : Declares(tree, role, key.v)

\* C29: in the output of toGraphml, for every node (resp. edge) and every
\* data entry it carries there is a key declaration with the same id and
\* for="node" (resp. for="edge"), for the entries that come from the
\* attributes map and for those that come from top-level fields other than
\* id, source and target.
C29_DataEntriesDeclared ==
    (last.op = "toGraphml" /\ last.err = NoError) =>
        /\ AllDeclared(out.doc.tree, "node")
        /\ AllDeclared(out.doc.tree, "edge")

\* every key of the attributes map of an element has a descriptor in the schema
AllDescribed(schema, elements) ==
    \A key \in AttributeKeys(elements) : \E d \in Range(schema) : d.id = key

\* C30: after fromJson or fromGraphology, for every node (resp. edge) and
\* every key of its attributes map, the node (resp. edge) schema holds a
\* descriptor with that id, whether the key came from the nested attributes
\* object of the source element or was moved there from a top-level field.
C30_SchemaComplete ==
    \A j \in 1..Len(snaps) :
        graphs[j].by \in JsonImporters =>
            /\ AllDescribed(snaps[j].nodeAttributes, snaps[j].nodes)
            /\ AllDescribed(snaps[j].edgeAttributes, snaps[j].edges)

\* a node got a descriptor for an attribute that was moved from the top
\* level, an edge for one of its nested attributes object
C30_MovedAndNested ==
    /\ IsFromJsonOfGiven
    /\ \E i \in 1..Len(GivenNodes) :
           /\ HasKey(GivenNodes[i].o, "thickness")
           /\ HasKey(GetE(snaps[1].nodes[i].o, "attributes").o, "thickness")
           /\ HasDescriptor(snaps[1].nodeAttributes, "thickness")
    /\ \E i \in 1..Len(GivenEdges) :
           /\ HasKey(GetE(GivenEdges[i].o, "attributes").o, "a")
           /\ HasDescriptor(snaps[1].edgeAttributes, "a")

====
